---- MODULE Spec2Model ----
(***************************************************************************)
(* SIM800L cell locator: the AT-command acquisition of cell information.   *)
(*                                                                         *)
(* Texts (Arduino String values) are sequences of ASCII codes, so that     *)
(* searching, slicing, trimming, case folding and number conversion are    *)
(* computed character by character as the firmware computes them.          *)
(* Positions are 0-based as in the source; -1 is "not found".              *)
(***************************************************************************)
EXTENDS Integers, Sequences, FiniteSets, TLC

(***************************************************************************)
(* Text literals of the source and of the modem's answers.                 *)
(***************************************************************************)
S_OK == <<79, 75>>                       \* OK
S_READY == <<82, 69, 65, 68, 89>>        \* READY
S_CENG == <<43, 67, 69, 78, 71, 58>>     \* +CENG:
S_CREG == <<43, 67, 82, 69, 71, 58>>     \* +CREG:
S_CSQ == <<43, 67, 83, 81, 58>>          \* +CSQ:
S_QUOTE == <<34>>                        \* the double quote character
S_COMMA == <<44>>                        \* ,
S_LF == <<10>>                           \* \n
S_CRLF == <<13, 10>>                     \* \r\n
S_0000 == <<48, 48, 48, 48>>             \* 0000
S_ffff == <<102, 102, 102, 102>>         \* ffff
S_EMPTY == << >>                         \* the empty String

(***************************************************************************)
(* Arduino String and C library functions used by the firmware.            *)
(***************************************************************************)
\* isspace(): space, \t, \n, \v, \f, \r
IsSpace(c) == c = 32 \/ (c >= 9 /\ c <= 13)

IsDigit(c) == c >= 48 /\ c <= 57

IsHexDigit(c) == IsDigit(c) \/ (c >= 65 /\ c <= 70) \/ (c >= 97 /\ c <= 102)

HexDigitValue(c) ==
  IF IsDigit(c) THEN c - 48
  ELSE IF c >= 65 /\ c <= 70 THEN c - 55
  ELSE c - 87

\* tolower() of one character
LowerChar(c) == IF c >= 65 /\ c <= 90 THEN c + 32 ELSE c

\* LONG_MAX of the 32-bit target
LongMax == 2147483647

RECURSIVE FindFrom(_, _, _)
\* strstr(buffer + p, needle): the first position >= p where needle occurs
FindFrom(s, needle, p) ==
  IF p + Len(needle) > Len(s) THEN -1
  ELSE IF SubSeq(s, p + 1, p + Len(needle)) = needle THEN p
  ELSE FindFrom(s, needle, p + 1)

\* String::indexOf(needle, fromIndex); fromIndex is unsigned, so a negative
\* argument is a huge one, and fromIndex >= length gives -1
IndexOf(s, needle, fromIndex) ==
  IF fromIndex < 0 \/ fromIndex >= Len(s) THEN -1
  ELSE FindFrom(s, needle, fromIndex)

\* an int argument converted to unsigned int, only as far as its order
\* against a length matters
AsUnsigned(n, len) == IF n < 0 THEN len + 1 ELSE n

\* String::substring(left, right): swaps the bounds if left > right,
\* empty if left >= length, right clipped to the length
Substring(s, left, right) ==
  LET l0 == AsUnsigned(left, Len(s))
      r0 == AsUnsigned(right, Len(s))
      l == IF l0 > r0 THEN r0 ELSE l0
      r1 == IF l0 > r0 THEN l0 ELSE r0
      r == IF r1 > Len(s) THEN Len(s) ELSE r1
  IN IF l >= Len(s) THEN << >> ELSE SubSeq(s, l + 1, r)

\* String::substring(left)
SubstringFrom(s, left) == Substring(s, left, Len(s))

RECURSIVE SkipSpaces(_)
SkipSpaces(s) ==
  IF s # << >> /\ IsSpace(Head(s)) THEN SkipSpaces(Tail(s)) ELSE s

RECURSIVE DropTrailingSpaces(_)
DropTrailingSpaces(s) ==
  IF s # << >> /\ IsSpace(s[Len(s)])
  THEN DropTrailingSpaces(SubSeq(s, 1, Len(s) - 1))
  ELSE s

\* String::trim()
Trim(s) == DropTrailingSpaces(SkipSpaces(s))

\* String::toLowerCase()
ToLowerCase(s) == [k \in 1..Len(s) |-> LowerChar(s[k])]

RECURSIVE DigitsValue(_, _)
\* the value of the leading decimal digits of s, acc being the value so far
DigitsValue(s, acc) ==
  IF s # << >> /\ IsDigit(Head(s))
  THEN LET v == acc * 10 + (Head(s) - 48)
       IN DigitsValue(Tail(s), IF v > LongMax THEN LongMax ELSE v)
  ELSE acc

\* String::toInt() = atol(): leading white space, an optional sign, then
\* decimal digits; 0 when there is no digit
ToInt(s) ==
  LET t == SkipSpaces(s)
  IN IF t = << >> THEN 0
     ELSE IF Head(t) = 45 THEN 0 - DigitsValue(Tail(t), 0)
     ELSE IF Head(t) = 43 THEN DigitsValue(Tail(t), 0)
     ELSE DigitsValue(t, 0)

RECURSIVE HexDigitsValue(_, _)
\* the value of the leading hexadecimal digits of s, saturating at LONG_MAX
HexDigitsValue(s, acc) ==
  IF s # << >> /\ IsHexDigit(Head(s))
  THEN LET v == acc * 16 + HexDigitValue(Head(s))
       IN HexDigitsValue(Tail(s), IF v > LongMax THEN LongMax ELSE v)
  ELSE acc

\* an optional 0x / 0X prefix is skipped when a hexadecimal digit follows
SkipHexPrefix(s) ==
  IF Len(s) >= 3 /\ s[1] = 48 /\ (s[2] = 120 \/ s[2] = 88) /\ IsHexDigit(s[3])
  THEN SubSeq(s, 3, Len(s))
  ELSE s

\* a conversion called with base 10
StrtolBase10(s) == ToInt(s)

\* strtol(text, NULL, 16): leading white space, an optional sign, an
\* optional 0x, then the longest run of hexadecimal digits; 0 when there is
\* none; conversion stops at the first other character
Strtol16(s) ==
  LET t == SkipSpaces(s)
  IN IF t = << >> THEN 0
     ELSE IF Head(t) = 45 THEN 0 - HexDigitsValue(SkipHexPrefix(Tail(t)), 0)
     ELSE IF Head(t) = 43 THEN HexDigitsValue(SkipHexPrefix(Tail(t)), 0)
     ELSE HexDigitsValue(SkipHexPrefix(t), 0)

RECURSIVE DecimalText(_)
\* String(n) of a non-negative number
DecimalText(n) ==
  IF n < 10 THEN <<48 + n>> ELSE DecimalText(n \div 10) \o <<48 + (n % 10)>>

\* String(long)
LongText(n) == IF n < 0 THEN <<45>> \o DecimalText(0 - n) ELSE DecimalText(n)

(***************************************************************************)
(* The modem's answers.  An answer is a list of lines, each framed by      *)
(* CR LF as the SIM800L frames them.  A +CENG report is described by its   *)
(* lines: the header line, or a cell line with its index and the fields    *)
(* of its quoted section.                                                  *)
(***************************************************************************)
F_228 == <<50, 50, 56>>                  \* 228
F_10 == <<49, 48>>                       \* 10
F_0495 == <<48, 52, 57, 53>>             \* 0495
F_27B9 == <<50, 55, 66, 57>>             \* 27B9
F_1A2B == <<49, 65, 50, 66>>             \* 1A2B
F_18 == <<49, 56>>                       \* 18
F_20 == <<50, 48>>                       \* 20
F_30 == <<51, 48>>                       \* 30
F_5 == <<53>>                            \* 5
F_1 == <<49>>                            \* 1
F_FFFF == <<70, 70, 70, 70>>             \* FFFF
F_SPACE == <<32>>                        \* one space
T_CENG_SP == <<43, 67, 69, 78, 71, 58, 32>>              \* +CENG: and a space
T_HEADER == <<43, 67, 69, 78, 71, 58, 32, 51, 44, 49>>   \* +CENG: 3,1
T_OK_LINE == <<79, 75>>                                  \* OK
T_ERROR_LINE == <<69, 82, 82, 79, 82>>                   \* ERROR
T_AT_ECHO == <<65, 84, 13>>                              \* AT\r (command echo)
T_CPIN_READY == <<43, 67, 80, 73, 78, 58, 32, 82, 69, 65, 68, 89>>
T_CPIN_SIM_PIN == <<43, 67, 80, 73, 78, 58, 32, 83, 73, 77, 32, 80, 73, 78>>
T_CPIN_NOT_READY ==
  <<43, 67, 80, 73, 78, 58, 32, 78, 79, 84, 32, 82, 69, 65, 68, 89>>
T_CPIN_NOT_INSERTED ==
  <<43, 67, 80, 73, 78, 58, 32, 78, 79, 84, 32, 73, 78, 83, 69, 82, 84, 69, 68>>
\* +COPS: 0,0, then CARRIER between double quotes
T_COPS_ALPHA ==
  <<43, 67, 79, 80, 83, 58, 32, 48, 44, 48, 44, 34, 67, 65, 82, 82, 73, 69, 82, 34>>
T_COPS_BARE == <<43, 67, 79, 80, 83, 58, 32, 48>>        \* +COPS: 0
T_CARRIER == <<67, 65, 82, 82, 73, 69, 82>>              \* CARRIER

RECURSIVE Framed(_)
\* the bytes of an answer made of the given lines
Framed(lines) ==
  IF lines = << >> THEN << >>
  ELSE S_CRLF \o Head(lines) \o S_CRLF \o Framed(Tail(lines))

RECURSIVE JoinFields(_)
JoinFields(fields) ==
  IF fields = << >> THEN << >>
  ELSE IF Len(fields) = 1 THEN Head(fields)
  ELSE Head(fields) \o S_COMMA \o JoinFields(Tail(fields))

HeaderLine == [kind |-> "header", index |-> 3, fields |-> << >>]

CellLine(index, fields) == [kind |-> "cell", index |-> index, fields |-> fields]

\* the text of one line of a +CENG report
LineText(l) ==
  IF l.kind = "header" THEN T_HEADER
  ELSE T_CENG_SP \o DecimalText(l.index) \o S_COMMA
       \o S_QUOTE \o JoinFields(l.fields) \o S_QUOTE

\* the bytes of a +CENG report: its lines, then OK when the modem completed
\* the command; no line and no OK is a timed read that got nothing
ReportText(report) ==
  Framed([k \in 1..Len(report.lines) |-> LineText(report.lines[k])])
  \o (IF report.ok THEN Framed(<<T_OK_LINE>>) ELSE << >>)

Report(lines) == [lines |-> lines, ok |-> TRUE]

\* cell lines a SIM800L can emit while its report converges
ServingCell == CellLine(0, <<F_228, F_10, F_0495, F_27B9, F_18, F_5>>)
ServingCellUnset == CellLine(0, <<F_228, F_10, S_0000, S_ffff, F_18, F_5>>)
ServingCellAgain == CellLine(0, <<F_228, F_10, F_0495, F_1A2B, F_30, F_1>>)
Neighbour == CellLine(1, <<F_228, F_10, F_0495, F_1A2B, F_20>>)
NeighbourUnset == CellLine(1, <<F_228, F_10, F_FFFF, F_1A2B, F_20>>)
NeighbourEmpty == CellLine(1, <<S_EMPTY, S_EMPTY, S_EMPTY, S_EMPTY, S_EMPTY, S_EMPTY>>)
NeighbourShort == CellLine(2, <<F_228, F_10>>)
NeighbourBlank == CellLine(2, <<F_228, F_10, F_SPACE, F_27B9, F_18>>)

(***************************************************************************)
(* isCengDataComplete (tabular variant).                                   *)
(***************************************************************************)
RECURSIVE SplitLoop(_, _, _, _)
\* the loop "for (j = 0; j < 5; ++j)" that fills values[k++]: acc holds
\* values[0..k-1]
SplitLoop(data, j, start, acc) ==
  IF j >= 5 THEN acc
  ELSE LET comma == IndexOf(data, S_COMMA, start)
       IN IF comma = -1
          THEN Append(acc, SubstringFrom(data, start))
          ELSE SplitLoop(data, j + 1, comma + 1,
                         Append(acc, Substring(data, start, comma)))

\* String values[6] after the split loop and "while (k < 6) values[k++] = ''"
SplitValues(data) ==
  LET filled == SplitLoop(data, 0, 0, << >>)
  IN [k \in 1..6 |-> IF k <= Len(filled) THEN filled[k] ELSE S_EMPTY]

\* the column test without toLowerCase()
ColumnUnsetCaseSensitive(value) ==
  LET v == Trim(value)
  IN Len(v) = 0 \/ v = S_0000 \/ v = S_ffff

\* the test of one of the columns MCC, MNC, LAC, CID
ColumnUnset(value) ==
  LET v == ToLowerCase(Trim(value))
  IN Len(v) = 0 \/ v = S_0000 \/ v = S_ffff

\* the end of the line that starts at cengIdx
LineEnd(resp, cengIdx) ==
  LET lineEnd == IndexOf(resp, S_LF, cengIdx)
  IN IF lineEnd = -1 THEN Len(resp) ELSE lineEnd

RECURSIVE CompleteFrom(_, _)
\* the while loop of isCengDataComplete, entered with cengIdx = from
CompleteFrom(cengResponse, from) ==
  LET cengIdx == IndexOf(cengResponse, S_CENG, from)
  IN IF cengIdx = -1 THEN TRUE
     ELSE LET lineEnd == LineEnd(cengResponse, cengIdx)
              line == Trim(Substring(cengResponse, cengIdx, lineEnd))
              comma1 == IndexOf(line, S_COMMA, 0)
              q1 == IndexOf(line, S_QUOTE, comma1)
              q2 == IndexOf(line, S_QUOTE, q1 + 1)
          IN IF q1 = -1 \/ q2 = -1
             THEN CompleteFrom(cengResponse, lineEnd)
             ELSE LET values == SplitValues(Substring(line, q1 + 1, q2))
                  IN IF \E c \in 1..4 : ColumnUnset(values[c])
                     THEN FALSE
                     ELSE CompleteFrom(cengResponse, lineEnd)

RECURSIVE ExaminedFrom(_, _)
\* the record lines the while loop of isCengDataComplete splits into
\* values[6], in order, up to the one that makes it return false; each with
\* the number that stands between +CENG: and the first comma of its line
ExaminedFrom(cengResponse, from) ==
  LET cengIdx == IndexOf(cengResponse, S_CENG, from)
  IN IF cengIdx = -1 THEN << >>
     ELSE LET lineEnd == LineEnd(cengResponse, cengIdx)
              line == Trim(Substring(cengResponse, cengIdx, lineEnd))
              comma1 == IndexOf(line, S_COMMA, 0)
              q1 == IndexOf(line, S_QUOTE, comma1)
              q2 == IndexOf(line, S_QUOTE, q1 + 1)
          IN IF q1 = -1 \/ q2 = -1
             THEN ExaminedFrom(cengResponse, lineEnd)
             ELSE LET values == SplitValues(Substring(line, q1 + 1, q2))
                      record == [index |-> ToInt(Substring(line, 6, comma1)),
                                 values |-> values]
                  IN IF \E c \in 1..4 : ColumnUnset(values[c])
                     THEN <<record>>
                     ELSE <<record>> \o ExaminedFrom(cengResponse, lineEnd)

\* the test stopped before the first neighbour line, +CENG: 1,
isCengDataCompleteServingOnly(cengResponse) ==
  LET cut == IndexOf(cengResponse, S_CENG \o <<32, 49, 44>>, 0)
  IN IF cut = -1 THEN CompleteFrom(cengResponse, 0)
     ELSE CompleteFrom(Substring(cengResponse, 0, cut), 0)

isCengDataComplete(cengResponse) == CompleteFrom(cengResponse, 0)

(***************************************************************************)
(* getCellInfo (tabular variant): the retry loop's test and the parser.    *)
(***************************************************************************)
\* a retry loop written "i <= 5"
OneAttemptTooMany == 5 + 1

\* the number of AT+CENG? attempts of the retry loop
MaxAttempts == 5

\* a retry loop whose success branch has lost its break
AfterRoundWithoutBreak(accepted, i) ==
  IF i + 1 < MaxAttempts THEN "poll"
  ELSE IF accepted THEN "parse"
  ELSE "failed"

\* where a round of the retry loop leads: break on success, the next round
\* while i + 1 < 5, else the loop ends and "if (!cengSuccess) return false"
AfterRound(accepted, i) ==
  IF accepted THEN "parse"
  ELSE IF i + 1 < MaxAttempts THEN "poll"
  ELSE "failed"

\* the condition under which the retry loop breaks with success
PollAccepted(cengResponse) ==
  IndexOf(cengResponse, S_CENG, 0) # -1 /\ isCengDataComplete(cengResponse)

RECURSIVE CollectFrom(_, _, _, _)
\* the loop that collects the cell lines into the map cellLines by index
CollectFrom(cengResponse, from, cellLines, maxIndex) ==
  LET cengIdx == IndexOf(cengResponse, S_CENG, from)
  IN IF cengIdx = -1 THEN [cellLines |-> cellLines, maxIndex |-> maxIndex]
     ELSE LET lineEnd == LineEnd(cengResponse, cengIdx)
              line == Trim(Substring(cengResponse, cengIdx, lineEnd))
              comma1 == IndexOf(line, S_COMMA, 0)
              index == ToInt(Substring(line, 6, comma1))
          IN IF comma1 = -1
             THEN CollectFrom(cengResponse, cengIdx + 1, cellLines, maxIndex)
             ELSE CollectFrom(cengResponse, lineEnd,
                              (index :> line) @@ cellLines,
                              IF index > maxIndex THEN index ELSE maxIndex)

CollectCellLines(cengResponse) == CollectFrom(cengResponse, 0, << >>, -1)

\* whether the collected line has the quoted section the parser needs
HasQuotedSection(line) ==
  LET comma1 == IndexOf(line, S_COMMA, 0)
      q1 == IndexOf(line, S_QUOTE, comma1)
      q2 == IndexOf(line, S_QUOTE, q1 + 1)
  IN q1 # -1 /\ q2 # -1

\* String values[6] of a collected line
LineValues(line) ==
  LET comma1 == IndexOf(line, S_COMMA, 0)
      q1 == IndexOf(line, S_QUOTE, comma1)
      q2 == IndexOf(line, S_QUOTE, q1 + 1)
  IN SplitValues(Substring(line, q1 + 1, q2))

\* what the loop "for (idx = 0; idx <= maxIndex; ++idx)" does for one idx
CellOf(cellLines, idx) ==
  IF idx \notin DOMAIN cellLines
  THEN [index |-> idx, state |-> "missing", values |-> << >>,
        lacDec |-> 0, cidDec |-> 0]
  ELSE IF ~HasQuotedSection(cellLines[idx])
  THEN [index |-> idx, state |-> "unquoted", values |-> << >>,
        lacDec |-> 0, cidDec |-> 0]
  ELSE LET values == LineValues(cellLines[idx])
       IN IF \A c \in 1..4 : Len(values[c]) > 0
          THEN [index |-> idx, state |-> "decoded", values |-> values,
                lacDec |-> Strtol16(values[3]), cidDec |-> Strtol16(values[4])]
          ELSE [index |-> idx, state |-> "incomplete", values |-> values,
                lacDec |-> 0, cidDec |-> 0]

\* the cells reported by the parser, by increasing index
ParseCells(cengResponse) ==
  LET c == CollectCellLines(cengResponse)
  IN [k \in 1..(c.maxIndex + 1) |-> CellOf(c.cellLines, k - 1)]

\* AT+COPS? sent whatever the lines collected
QueriesOperatorAlways(cengResponse) == TRUE

\* AT+COPS? is sent while handling idx 0, when its line has a quoted section
QueriesOperator(cengResponse) ==
  LET c == CollectCellLines(cengResponse)
  IN c.maxIndex >= 0 /\ 0 \in DOMAIN c.cellLines
     /\ HasQuotedSection(c.cellLines[0])

\* the first quoted substring of the AT+COPS? answer, or empty
OperatorNameOf(resp) ==
  LET copsAlphaIdx == IndexOf(resp, S_QUOTE, 0)
      copsAlphaEnd == IndexOf(resp, S_QUOTE, copsAlphaIdx + 1)
  IN IF copsAlphaIdx # -1 /\ copsAlphaEnd # -1
     THEN Substring(resp, copsAlphaIdx + 1, copsAlphaEnd)
     ELSE S_EMPTY

(***************************************************************************)
(* State.  The globals g_mcc .. cellInfo outlive a call of getCellInfo;    *)
(* the other variables are the locals of the call in progress, the         *)
(* commands and reads it has made (trace), and what the modem meant by     *)
(* each AT+CENG? answer (polls).                                           *)
(***************************************************************************)
VARIABLES
  pc,             \* where the call of getCellInfo stands; "idle" between calls
  ret,            \* what the last call returned: "none", "true", "false"
  trace,          \* sendAT, readAT and delay calls of the call, in order
  atResp,         \* String atResp
  cpinResp,       \* String cpinResp
  cengResponse,   \* String cengResponse
  cengSuccess,    \* bool cengSuccess
  successfulRound,\* int successfulRound
  attempt,        \* the loop variable i of the retry loop
  polls,          \* the reports the modem sent to the AT+CENG? polls
  cells,          \* the cells reported by the parser
  operatorName,   \* String operatorName
  g_mcc, g_mnc, g_lac, g_cid,
  cellInfo,
  cregResp,       \* String cregResp (discrete variant)
  lac, cid,       \* String lac, cid
  csqResp,        \* String csqResp
  signalQuality,  \* int16_t signalQuality
  copsSetResp,    \* String copsSetResp
  copsResp,       \* String copsResp
  operatorCode,   \* String operatorCode
  copsSetAlphaResp, \* String copsSetAlphaResp
  copsAlphaResp,  \* String copsAlphaResp
  answers,        \* what the modem meant by its answers to the queries
  sampleKind,     \* what is under test in isolation: "report" or "hex"
  sample,         \* the +CENG report, or the text, under test
  sampleDone,     \* the functions applied to it so far
  sampleComplete, \* isCengDataComplete of the report
  sampleCells,    \* the parser's cells of the report
  sampleValue,    \* strtol(text, NULL, 16) of the text
  readPc,         \* where a call of readAT stands: "idle", "reading", "logging"
  rxRead,         \* the bytes sim800Serial.read() returned to the call
  readResp,       \* String resp of readAT
  readLog,        \* the [RSP] lines the call printed
  readReturn,     \* what the call returned
  loopPc,         \* main3.cpp loop(): "loop", or "acquiring" inside getCellInfo
  serialRx,       \* the characters from the PC waiting in Serial's buffer
  input,          \* static String input
  lineTyped,      \* the characters loop() read since the last end of line
  runsThisPress,  \* the calls of runProcess() since the button last went down
  inFlight,       \* calls of getCellInfo begun and not yet returned
  button,         \* the level of BOOT_BUTTON_PIN: "HIGH", or "LOW" when pressed
  buttonPc,       \* main.cpp loop(): "sample", "debounce", "process", "release"
  lastButtonState,\* static bool lastButtonState
  buttonState,    \* bool buttonState
  processes,      \* calls of runProcess begun and not yet returned
  estimated,      \* the last two distance estimates made: quality and tenths
  bridgePc,       \* main2.cpp loop(): "pc" in the first while, "modem" in the second
  pcRx,           \* bytes from the PC waiting in Serial's buffer
  pcTaken,        \* bytes Serial.read() returned, in order
  toModem,        \* bytes written to sim800Serial, in order
  modemRx,        \* bytes from the SIM800L waiting in sim800Serial's buffer
  modemTaken,     \* bytes sim800Serial.read() returned, in order
  toPc,           \* bytes written to Serial, in order
  processPc,      \* where runProcess stands; "idle" between calls
  journal,        \* the steps of the call so far, each with its outcome
  processCellInfo,\* String cellInfo of main.cpp
  locationInfo,   \* String locationInfo
  addressInfo,    \* String addressInfo
  allInfo,        \* String allInfo, as the texts it is made of
  wirePc,         \* getCellInfo on the serial line: the statement it stands at
  written,        \* the commands this call has written to sim800Serial
  owed,           \* the commands written that the modem has not answered yet
  rxBuffer,       \* what sim800Serial holds unread, as the modem emitted it
  taken,          \* what the last readAT returned, and the test made on it
  round,          \* int i of the retry loop
  wireRet,        \* what the call returned: "none", "true" or "false"
  published       \* the globals as they were when getCellInfo was called

globals == <<g_mcc, g_mnc, g_lac, g_cid, cellInfo>>

locals == <<atResp, cpinResp, cengResponse, cengSuccess, successfulRound,
            attempt, polls, cells, operatorName>>

samples == <<sampleKind, sample, sampleDone, sampleComplete, sampleCells,
             sampleValue>>

\* the locals that only the discrete variant of getCellInfo has
discretes == <<cregResp, lac, cid, csqResp, signalQuality, copsSetResp,
               copsResp, operatorCode, copsSetAlphaResp, copsAlphaResp,
               answers>>

\* the state of a call of readAT taken by itself
readers == <<readPc, rxRead, readResp, readLog, readReturn>>

\* the state of the two loop() functions that start an acquisition
loops == <<loopPc, serialRx, input, lineTyped, inFlight, button, buttonPc,
           lastButtonState, buttonState, processes, runsThisPress>>

\* the state of the distance estimate taken by itself
estimates == <<estimated>>

\* the state of the serial bridge
bridges == <<bridgePc, pcRx, pcTaken, toModem, modemRx, modemTaken, toPc>>

\* the state of runProcess and the globals of main.cpp
runs == <<processPc, journal, processCellInfo, locationInfo, addressInfo,
          allInfo>>

\* the state of getCellInfo and of the serial line to the SIM800L
wires == <<wirePc, written, owed, rxBuffer, taken, round, wireRet>>

\* what lies outside getCellInfo and the functions under test
devices == <<readers, loops, estimates, bridges, runs, wires>>

\* what a call of the tabular getCellInfo leaves alone
others == <<samples, discretes, devices, published>>

\* getCellInfo and the functions under test
acquisition == <<pc, ret, trace, locals, globals, discretes, samples,
                 published>>

vars == <<acquisition, devices>>

\* what readAT, and what the loops, leave alone
besideReaders == <<acquisition, loops, estimates, bridges, runs, wires>>

besideLoops == <<acquisition, readers, estimates, bridges, runs, wires>>

besideEstimates == <<acquisition, readers, loops, bridges, runs, wires>>

besideBridges == <<acquisition, readers, loops, estimates, runs, wires>>

besideRuns == <<acquisition, readers, loops, estimates, bridges, wires>>

besideWires == <<acquisition, readers, loops, estimates, bridges, runs>>

\* events of the trace
Sent(cmd) == [op |-> "send", cmd |-> cmd, ms |-> 0]
ReadDone(timeout) == [op |-> "read", cmd |-> "", ms |-> timeout]
Delayed(ms) == [op |-> "delay", cmd |-> "", ms |-> ms]

\* sendAT(cmd); readAT(timeout)
Exchange(cmd, timeout) == <<Sent(cmd), ReadDone(timeout)>>

(***************************************************************************)
(* What the modem may answer to each command.                              *)
(***************************************************************************)
AtResponses ==
  { T_AT_ECHO \o Framed(<<T_OK_LINE>>),  \* echo and OK
    Framed(<<T_ERROR_LINE>>),
    S_EMPTY }                            \* nothing within the timeout

CpinResponses ==
  { Framed(<<T_CPIN_READY, T_OK_LINE>>),
    Framed(<<T_CPIN_SIM_PIN, T_OK_LINE>>),
    Framed(<<T_CPIN_NOT_READY, T_OK_LINE>>),
    Framed(<<T_CPIN_NOT_INSERTED, T_OK_LINE>>),
    Framed(<<T_ERROR_LINE>>),
    S_EMPTY }

\* the reports a converging SIM800L sends to AT+CENG?
CengReports ==
  { Report(<<HeaderLine, ServingCell>>),
    Report(<<ServingCell>>),
    Report(<<HeaderLine>>),
    Report(<<HeaderLine, ServingCellUnset>>),
    Report(<<HeaderLine, ServingCell, NeighbourEmpty>>),
    Report(<<HeaderLine, Neighbour>>),
    Report(<<HeaderLine, ServingCell, Neighbour>>),
    [lines |-> << >>, ok |-> FALSE] }           \* nothing within the timeout

CopsResponses ==
  { Framed(<<T_COPS_ALPHA, T_OK_LINE>>),
    Framed(<<T_COPS_BARE, T_OK_LINE>>),
    S_EMPTY }

(***************************************************************************)
(* getCellInfo (tabular variant) as called from loop().                    *)
(***************************************************************************)
NoCall ==
  /\ pc = "idle"
  /\ ret = "none"
  /\ trace = << >>
  /\ atResp = S_EMPTY
  /\ cpinResp = S_EMPTY
  /\ cengResponse = S_EMPTY
  /\ cengSuccess = FALSE
  /\ successfulRound = -1
  /\ attempt = 0
  /\ polls = << >>
  /\ cells = << >>
  /\ operatorName = S_EMPTY
  /\ g_mcc = 0 /\ g_mnc = 0 /\ g_lac = 0 /\ g_cid = 0
  /\ cellInfo = S_EMPTY
  /\ published = <<0, 0, 0, 0, S_EMPTY>>
  /\ cregResp = S_EMPTY
  /\ lac = S_EMPTY /\ cid = S_EMPTY
  /\ csqResp = S_EMPTY
  /\ signalQuality = 99
  /\ copsSetResp = S_EMPTY
  /\ copsResp = S_EMPTY
  /\ operatorCode = S_EMPTY
  /\ copsSetAlphaResp = S_EMPTY
  /\ copsAlphaResp = S_EMPTY
  /\ answers = << >>

NoSample ==
  /\ sampleKind = "none"
  /\ sample = << >>
  /\ sampleDone = {}
  /\ sampleComplete = FALSE
  /\ sampleCells = << >>
  /\ sampleValue = 0

NoRead ==
  /\ readPc = "idle"
  /\ rxRead = << >>
  /\ readResp = S_EMPTY
  /\ readLog = << >>
  /\ readReturn = S_EMPTY

\* after setup(): nothing typed, the button released
NoTrigger ==
  /\ loopPc = "loop"
  /\ serialRx = << >>
  /\ input = S_EMPTY
  /\ lineTyped = << >>
  /\ runsThisPress = 0
  /\ inFlight = 0
  /\ button = "HIGH"
  /\ buttonPc = "sample"
  /\ lastButtonState = "HIGH"
  /\ buttonState = "HIGH"
  /\ processes = 0

NoEstimate == estimated = << >>

\* after setup() of the bridge: both buffers flushed
NoTraffic ==
  /\ bridgePc = "pc"
  /\ pcRx = << >> /\ pcTaken = << >> /\ toModem = << >>
  /\ modemRx = << >> /\ modemTaken = << >> /\ toPc = << >>

\* the globals of main.cpp as initialised
NoProcess ==
  /\ processPc = "idle"
  /\ journal = << >>
  /\ processCellInfo = S_EMPTY
  /\ locationInfo = ""
  /\ addressInfo = ""
  /\ allInfo = << >>

\* before the first call: nothing written, nothing received
NoExchange ==
  /\ wirePc = "idle"
  /\ written = 0
  /\ owed = << >>
  /\ rxBuffer = << >>
  /\ taken = [exchange |-> 0, test |-> "none", chunks |-> << >>,
              passed |-> FALSE]
  /\ round = 0
  /\ wireRet = "none"

NoDevice ==
  NoRead /\ NoTrigger /\ NoEstimate /\ NoTraffic /\ NoProcess /\ NoExchange

Init == NoCall /\ NoSample /\ NoDevice

\* loop() calls getCellInfo(): a new frame of locals
CallGetCellInfo ==
  /\ pc = "idle"
  /\ pc' = "at"
  /\ ret' = "none"
  /\ trace' = << >>
  /\ atResp' = S_EMPTY
  /\ cpinResp' = S_EMPTY
  /\ cengResponse' = S_EMPTY
  /\ cengSuccess' = FALSE
  /\ successfulRound' = -1
  /\ attempt' = 0
  /\ polls' = << >>
  /\ cells' = << >>
  /\ operatorName' = S_EMPTY
  /\ published' = globals
  /\ UNCHANGED <<globals, samples, discretes, devices>>

\* a liveness probe whose failure is not acted upon
ModemRespondsAlways(resp) == TRUE

\* a SIM probe whose failure is not acted upon
SimReadyAlways(resp) == TRUE

\* the condition of "1. AT"
ModemResponds(resp) == IndexOf(resp, S_OK, 0) # -1

\* the condition of "2. AT+CPIN?"
SimReady(resp) == IndexOf(resp, S_READY, 0) # -1

\* 1. AT
ProbeAT ==
  /\ pc = "at"
  /\ \E resp \in AtResponses :
       /\ atResp' = resp
       /\ trace' = trace \o Exchange("AT", 1000)
       /\ IF ModemResponds(resp)
          THEN pc' = "cpin" /\ ret' = ret
          ELSE pc' = "idle" /\ ret' = "false"
  /\ UNCHANGED <<cpinResp, cengResponse, cengSuccess, successfulRound,
                 attempt, polls, cells, operatorName, globals, others>>

\* 2. AT+CPIN?
ProbeCPIN ==
  /\ pc = "cpin"
  /\ \E resp \in CpinResponses :
       /\ cpinResp' = resp
       /\ trace' = trace \o Exchange("AT+CPIN?", 1000)
       /\ IF SimReady(resp)
          THEN pc' = "cengmode" /\ ret' = ret
          ELSE pc' = "idle" /\ ret' = "false"
  /\ UNCHANGED <<atResp, cengResponse, cengSuccess, successfulRound,
                 attempt, polls, cells, operatorName, globals, others>>

\* sendAT("AT+CENG=3,1"); delay(500); the answer is not read
SetCengMode ==
  /\ pc = "cengmode"
  /\ pc' = "poll"
  /\ trace' = trace \o <<Sent("AT+CENG=3,1"), Delayed(500)>>
  /\ attempt' = 0
  /\ UNCHANGED <<ret, atResp, cpinResp, cengResponse, cengSuccess,
                 successfulRound, polls, cells, operatorName, globals, others>>

\* one round of "for (int i = 0; i < 5; ++i)"
PollCeng ==
  /\ pc = "poll"
  /\ attempt < MaxAttempts
  /\ \E report \in CengReports :
       LET resp == ReportText(report)
           accepted == PollAccepted(resp)
           next == AfterRound(accepted, attempt)
       IN /\ cengResponse' = resp
          /\ polls' = Append(polls, report)
          /\ cengSuccess' = (cengSuccess \/ accepted)
          /\ successfulRound' = IF accepted THEN attempt + 1
                                 ELSE successfulRound
          /\ trace' = trace \o Exchange("AT+CENG?", 3000)
                            \o (IF accepted THEN << >> ELSE <<Delayed(500)>>)
          /\ attempt' = IF next = "parse" THEN attempt ELSE attempt + 1
          /\ IF next = "failed"
             THEN pc' = "idle" /\ ret' = "false"
             ELSE pc' = next /\ ret' = ret
  /\ UNCHANGED <<atResp, cpinResp, cells, operatorName, globals, others>>

\* what the end of a successful call does to the globals
ClearGlobals ==
  /\ g_mcc' = 0
  /\ g_mnc' = 0
  /\ g_lac' = 0
  /\ g_cid' = 0
  /\ cellInfo' = S_EMPTY

\* parsing of a report with a quoted line of index 0: AT+COPS? is sent
ParseWithOperator ==
  /\ pc = "parse"
  /\ QueriesOperator(cengResponse)
  /\ \E resp \in CopsResponses :
       operatorName' = OperatorNameOf(resp)
  /\ cells' = ParseCells(cengResponse)
  /\ trace' = trace \o Exchange("AT+COPS?", 1000)
  /\ ClearGlobals
  /\ pc' = "idle"
  /\ ret' = "true"
  /\ UNCHANGED <<atResp, cpinResp, cengResponse, cengSuccess,
                 successfulRound, attempt, polls, others>>

\* parsing of a report without such a line: no further command
ParseWithoutOperator ==
  /\ pc = "parse"
  /\ ~QueriesOperator(cengResponse)
  /\ cells' = ParseCells(cengResponse)
  /\ ClearGlobals
  /\ pc' = "idle"
  /\ ret' = "true"
  /\ UNCHANGED <<trace, atResp, cpinResp, cengResponse, cengSuccess,
                 successfulRound, attempt, polls, operatorName, others>>

Next ==
  \/ CallGetCellInfo
  \/ ProbeAT
  \/ ProbeCPIN
  \/ SetCengMode
  \/ PollCeng
  \/ ParseWithOperator
  \/ ParseWithoutOperator

Spec == Init /\ [][Next]_vars

(***************************************************************************)
(* getCellInfo (discrete variant): AT+CREG?, AT+CSQ and AT+COPS? queries.  *)
(***************************************************************************)
T_CREG_HOME == <<43, 67, 82, 69, 71, 58, 32, 50, 44, 53, 44>>   \* +CREG: 2,5,
T_CREG_SEARCHING == <<43, 67, 82, 69, 71, 58, 32, 50, 44, 50>>  \* +CREG: 2,2
T_CSQ_SP == <<43, 67, 83, 81, 58, 32>>                          \* +CSQ: and a space
T_CSQ_BER == <<44, 57, 57>>                                     \* ,99
T_COPS_NUMERIC_PREFIX == <<43, 67, 79, 80, 83, 58, 32, 48, 44, 50, 44>> \* +COPS: 0,2,
T_COPS_ALPHA_PREFIX == <<43, 67, 79, 80, 83, 58, 32, 48, 44, 48, 44>>   \* +COPS: 0,0,
T_CLIP == <<43, 67, 76, 73, 80, 58, 32, 34, 52, 49, 34, 44, 49, 52, 53, 44, 34, 55, 34>>
  \* +CLIP: with the quoted texts 41 and 7 around the number 145
F_00FF == <<48, 48, 70, 70>>                 \* 00FF
F_31 == <<51, 49>>                           \* 31
F_45 == <<52, 53>>                           \* 45
F_22810 == <<50, 50, 56, 49, 48>>            \* 22810
F_310004 == <<51, 49, 48, 48, 48, 52>>       \* 310004
F_METERS == <<32, 109, 101, 116, 101, 114, 115>>  \* a space and meters

Quoted(text) == S_QUOTE \o text \o S_QUOTE

\* what the modem may mean by its answer to AT+CREG?: registered in a cell
\* (lac and cid in hexadecimal, with their values), or not registered
\* urc: the unsolicited lines that arrive within the same read, here none or
\* the caller identification of an incoming call
CregAnswers ==
  { [found |-> TRUE, lacHex |-> F_0495, cidHex |-> F_27B9,
     lacValue |-> 1173, cidValue |-> 10169, urc |-> << >>],
    [found |-> TRUE, lacHex |-> F_1A2B, cidHex |-> F_00FF,
     lacValue |-> 6699, cidValue |-> 255, urc |-> << >>],
    [found |-> FALSE, lacHex |-> S_EMPTY, cidHex |-> S_EMPTY,
     lacValue |-> 0, cidValue |-> 0, urc |-> << >>],
    [found |-> FALSE, lacHex |-> S_EMPTY, cidHex |-> S_EMPTY,
     lacValue |-> 0, cidValue |-> 0, urc |-> <<T_CLIP>>] }

CregText(a) ==
  IF a.found
  THEN Framed(<<T_CREG_HOME \o Quoted(a.lacHex) \o S_COMMA \o Quoted(a.cidHex),
                T_OK_LINE>> \o a.urc)
  ELSE Framed(<<T_CREG_SEARCHING, T_OK_LINE>> \o a.urc)

\* to AT+CSQ: a signal quality (45 is outside the range 0..31 of the SIM800L
\* manual), or nothing within the timeout
CsqAnswers ==
  { [found |-> TRUE, text |-> F_18, value |-> 18],
    [found |-> TRUE, text |-> F_31, value |-> 31],
    [found |-> TRUE, text |-> F_45, value |-> 45],
    [found |-> FALSE, text |-> S_EMPTY, value |-> 99] }

CsqText(a) ==
  IF a.found THEN Framed(<<T_CSQ_SP \o a.text \o T_CSQ_BER, T_OK_LINE>>)
  ELSE S_EMPTY

\* to AT+COPS=3,2 and AT+COPS=3,0
CopsSetResponses == { Framed(<<T_OK_LINE>>), Framed(<<T_ERROR_LINE>>) }

\* to AT+COPS? in numeric format: the operator code with its mcc and mnc, or
\* no operator
CopsNumericAnswers ==
  { [found |-> TRUE, code |-> F_22810, mcc |-> 228, mnc |-> 10],
    [found |-> TRUE, code |-> F_310004, mcc |-> 310, mnc |-> 4],
    [found |-> FALSE, code |-> S_EMPTY, mcc |-> 0, mnc |-> 0] }

CopsNumericText(a) ==
  IF a.found THEN Framed(<<T_COPS_NUMERIC_PREFIX \o Quoted(a.code), T_OK_LINE>>)
  ELSE Framed(<<T_COPS_BARE, T_OK_LINE>>)

\* to AT+COPS? in alphanumeric format: the operator name, or no operator
CopsAlphaAnswers ==
  { [found |-> TRUE, name |-> T_CARRIER],
    [found |-> FALSE, name |-> S_EMPTY] }

CopsAlphaText(a) ==
  IF a.found THEN Framed(<<T_COPS_ALPHA_PREFIX \o Quoted(a.name), T_OK_LINE>>)
  ELSE Framed(<<T_COPS_BARE, T_OK_LINE>>)

\* a long converted to int16_t
Int16(n) == ((n + 32768) % 65536) - 32768

\* the parsing of lac and cid out of the AT+CREG? answer: the texts between
\* the first four quotes after +CREG:, or nothing
CregFields(resp) ==
  LET cregIdx == IndexOf(resp, S_CREG, 0)
      q1 == IndexOf(resp, S_QUOTE, cregIdx)
      q2 == IndexOf(resp, S_QUOTE, q1 + 1)
      q3 == IndexOf(resp, S_QUOTE, q2 + 1)
      q4 == IndexOf(resp, S_QUOTE, q3 + 1)
  IN IF cregIdx # -1 /\ q1 # -1 /\ q2 # -1 /\ q3 # -1 /\ q4 # -1
     THEN [found |-> TRUE,
           lac |-> Substring(resp, q1 + 1, q2),
           cid |-> Substring(resp, q3 + 1, q4)]
     ELSE [found |-> FALSE, lac |-> S_EMPTY, cid |-> S_EMPTY]

\* the parsing of the signal quality out of the AT+CSQ answer
SignalQualityOf(resp) ==
  LET csqIdx == IndexOf(resp, S_CSQ, 0)
      commaIdx == IndexOf(resp, S_COMMA, csqIdx)
  IN IF csqIdx # -1 /\ commaIdx # -1
     THEN Int16(ToInt(Substring(resp, csqIdx + 6, commaIdx)))
     ELSE 99

\* the first quoted substring of an AT+COPS? answer, or nothing
FirstQuoted(resp) ==
  LET first == IndexOf(resp, S_QUOTE, 0)
      last == IndexOf(resp, S_QUOTE, first + 1)
  IN IF first # -1 /\ last # -1
     THEN [found |-> TRUE, text |-> Substring(resp, first + 1, last)]
     ELSE [found |-> FALSE, text |-> S_EMPTY]

\* String(distance, 1) in tenths of a meter, for |signalQuality| = 0..99:
\* distance = pow(10, (27.55 - 20 * log10(900.0) + |signalQuality|) / 20)
DistanceTenths ==
  <<0, 0, 0, 0, 0, 0, 1, 1, 1, 1, 1, 1, 1, 1, 1, 1, 2, 2, 2, 2, 3, 3, 3, 4,
    4, 5, 5, 6, 7, 7, 8, 9, 11, 12, 13, 15, 17, 19, 21, 24, 27, 30, 33,
    37, 42, 47, 53, 59, 67, 75, 84, 94, 106, 118, 133, 149, 167, 188, 211,
    236, 265, 297, 334, 374, 420, 471, 529, 593, 666, 747, 838, 940, 1055,
    1184, 1328, 1490, 1672, 1876, 2105, 2362, 2650, 2973, 3336, 3743,
    4200, 4713, 5288, 5933, 6657, 7469, 8380, 9403, 10550, 11837, 13282,
    14902, 16721, 18761, 21050, 23619>>

Abs(n) == IF n < 0 THEN 0 - n ELSE n

\* float distance = pow(10, (27.55 - 20 * log10(frequency)
\*                           + abs(signalQuality)) / 20), to one decimal
Distance(sq) == DistanceTenths[Abs(sq) + 1]

\* String(distance, 1) + " meters"
DistanceText(sq) ==
  LET tenths == Distance(sq)
  IN DecimalText(tenths \div 10) \o <<46>> \o DecimalText(tenths % 10)
     \o F_METERS

\* the summary: one labelled line per value, in the order of the source
Summary(name, code, mcc, mnc, sq, lacText, cidText) ==
  << [label |-> "Operator Name", value |-> name],
     [label |-> "Operator Numeric Code", value |-> code],
     [label |-> "MCC", value |-> LongText(mcc)],
     [label |-> "MNC", value |-> LongText(mnc)],
     [label |-> "Signal Quality", value |-> LongText(sq)],
     [label |-> "LAC", value |-> lacText],
     [label |-> "CID", value |-> cidText],
     [label |-> "Approx. Distance to Tower", value |-> DistanceText(sq)] >>

\* loop() calls getCellInfo(): a new frame of locals
DiscreteCall ==
  /\ pc = "idle"
  /\ pc' = "d_at"
  /\ ret' = "none"
  /\ trace' = << >>
  /\ atResp' = S_EMPTY
  /\ cpinResp' = S_EMPTY
  /\ cregResp' = S_EMPTY
  /\ lac' = S_EMPTY /\ cid' = S_EMPTY
  /\ csqResp' = S_EMPTY
  /\ signalQuality' = 99
  /\ copsSetResp' = S_EMPTY
  /\ copsResp' = S_EMPTY
  /\ operatorCode' = S_EMPTY
  /\ copsSetAlphaResp' = S_EMPTY
  /\ copsAlphaResp' = S_EMPTY
  /\ operatorName' = S_EMPTY
  /\ answers' = << >>
  /\ published' = globals
  /\ UNCHANGED <<cengResponse, cengSuccess, successfulRound, attempt, polls,
                 cells, globals, samples, devices>>

\* what no step of the discrete variant touches
tabulars == <<cengResponse, cengSuccess, successfulRound, attempt, polls,
              cells, samples, devices, published>>

\* 1. AT
DiscreteProbeAT ==
  /\ pc = "d_at"
  /\ \E resp \in AtResponses :
       /\ atResp' = resp
       /\ trace' = trace \o Exchange("AT", 1000)
       /\ IF ModemResponds(resp)
          THEN pc' = "d_cpin" /\ ret' = ret
          ELSE pc' = "idle" /\ ret' = "false"
  /\ UNCHANGED <<cpinResp, operatorName, globals, discretes, tabulars>>

\* 2. AT+CPIN?
DiscreteProbeCPIN ==
  /\ pc = "d_cpin"
  /\ \E resp \in CpinResponses :
       /\ cpinResp' = resp
       /\ trace' = trace \o Exchange("AT+CPIN?", 1000)
       /\ IF SimReady(resp)
          THEN pc' = "d_cregmode" /\ ret' = ret
          ELSE pc' = "idle" /\ ret' = "false"
  /\ UNCHANGED <<atResp, operatorName, globals, discretes, tabulars>>

\* 3. AT+CREG=2; its answer is read and dropped
DiscreteSetCregMode ==
  /\ pc = "d_cregmode"
  /\ pc' = "d_creg"
  /\ trace' = trace \o Exchange("AT+CREG=2", 1000)
  /\ UNCHANGED <<ret, atResp, cpinResp, operatorName, globals, discretes,
                 tabulars>>

\* 4. AT+CREG? and the parsing of lac and cid
DiscreteQueryCreg ==
  /\ pc = "d_creg"
  /\ \E a \in CregAnswers :
       LET resp == CregText(a)
           f == CregFields(resp)
       IN /\ cregResp' = resp
          /\ answers' = Append(answers, a)
          /\ IF f.found
             THEN /\ g_lac' = Strtol16(f.lac)
                  /\ g_cid' = Strtol16(f.cid)
                  /\ lac' = LongText(Strtol16(f.lac))
                  /\ cid' = LongText(Strtol16(f.cid))
             ELSE UNCHANGED <<g_lac, g_cid, lac, cid>>
  /\ trace' = trace \o Exchange("AT+CREG?", 1500)
  /\ pc' = "d_csq"
  /\ UNCHANGED <<ret, atResp, cpinResp, operatorName, g_mcc, g_mnc, cellInfo,
                 csqResp, signalQuality, copsSetResp, copsResp, operatorCode,
                 copsSetAlphaResp, copsAlphaResp, tabulars>>

\* 5. AT+CSQ and the parsing of the signal quality
DiscreteQueryCsq ==
  /\ pc = "d_csq"
  /\ \E a \in CsqAnswers :
       /\ csqResp' = CsqText(a)
       /\ answers' = Append(answers, a)
       /\ signalQuality' = SignalQualityOf(CsqText(a))
  /\ trace' = trace \o Exchange("AT+CSQ", 1000)
  /\ pc' = "d_setnumeric"
  /\ UNCHANGED <<ret, atResp, cpinResp, operatorName, globals, cregResp, lac,
                 cid, copsSetResp, copsResp, operatorCode, copsSetAlphaResp,
                 copsAlphaResp, tabulars>>

\* the format command is taken as accepted whatever the answer
FormatSetAlways(resp) == TRUE

\* copsSetResp.indexOf("OK") != -1: the modem accepted the format command
FormatSet(resp) == IndexOf(resp, S_OK, 0) # -1

\* 6. AT+COPS=3,2; without OK the call returns false
DiscreteSetNumeric ==
  /\ pc = "d_setnumeric"
  /\ \E resp \in CopsSetResponses :
       /\ copsSetResp' = resp
       /\ IF ~FormatSet(resp)
          THEN pc' = "idle" /\ ret' = "false"
          ELSE pc' = "d_numeric" /\ ret' = ret
  /\ trace' = trace \o Exchange("AT+COPS=3,2", 1000)
  /\ UNCHANGED <<atResp, cpinResp, operatorName, globals, cregResp, lac, cid,
                 csqResp, signalQuality, copsResp, operatorCode,
                 copsSetAlphaResp, copsAlphaResp, answers, tabulars>>

\* 7. AT+COPS? and the parsing of the operator code, mcc and mnc
DiscreteQueryNumeric ==
  /\ pc = "d_numeric"
  /\ \E a \in CopsNumericAnswers :
       LET resp == CopsNumericText(a)
           copsNum == FirstQuoted(resp)
       IN /\ copsResp' = resp
          /\ answers' = Append(answers, a)
          /\ operatorCode' = copsNum.text
          /\ IF copsNum.found /\ Len(copsNum.text) >= 5
             THEN /\ g_mcc' = ToInt(Substring(copsNum.text, 0, 3))
                  /\ g_mnc' = ToInt(SubstringFrom(copsNum.text, 3))
             ELSE g_mcc' = 0 /\ g_mnc' = 0
  /\ trace' = trace \o Exchange("AT+COPS?", 1000)
  /\ pc' = "d_setalpha"
  /\ UNCHANGED <<ret, atResp, cpinResp, operatorName, g_lac, g_cid, cellInfo,
                 cregResp, lac, cid, csqResp, signalQuality, copsSetResp,
                 copsSetAlphaResp, copsAlphaResp, tabulars>>

\* 8. AT+COPS=3,0; without OK the call returns false
DiscreteSetAlpha ==
  /\ pc = "d_setalpha"
  /\ \E resp \in CopsSetResponses :
       /\ copsSetAlphaResp' = resp
       /\ IF ~FormatSet(resp)
          THEN pc' = "idle" /\ ret' = "false"
          ELSE pc' = "d_alpha" /\ ret' = ret
  /\ trace' = trace \o Exchange("AT+COPS=3,0", 1000)
  /\ UNCHANGED <<atResp, cpinResp, operatorName, globals, cregResp, lac, cid,
                 csqResp, signalQuality, copsSetResp, copsResp, operatorCode,
                 copsAlphaResp, answers, tabulars>>

\* 9. AT+COPS?, the operator name, the distance and the summary
DiscreteQueryAlpha ==
  /\ pc = "d_alpha"
  /\ \E a \in CopsAlphaAnswers :
       LET resp == CopsAlphaText(a)
           name == FirstQuoted(resp).text
       IN /\ copsAlphaResp' = resp
          /\ answers' = Append(answers, a)
          /\ operatorName' = name
          /\ cellInfo' = Summary(name, operatorCode, g_mcc, g_mnc,
                                 signalQuality, lac, cid)
  /\ trace' = trace \o Exchange("AT+COPS?", 1000)
  /\ pc' = "idle"
  /\ ret' = "true"
  /\ UNCHANGED <<atResp, cpinResp, g_mcc, g_mnc, g_lac, g_cid, cregResp, lac,
                 cid, csqResp, signalQuality, copsSetResp, copsResp,
                 operatorCode, copsSetAlphaResp, tabulars>>

NextDiscrete ==
  \/ DiscreteCall
  \/ DiscreteProbeAT
  \/ DiscreteProbeCPIN
  \/ DiscreteSetCregMode
  \/ DiscreteQueryCreg
  \/ DiscreteQueryCsq
  \/ DiscreteSetNumeric
  \/ DiscreteQueryNumeric
  \/ DiscreteSetAlpha
  \/ DiscreteQueryAlpha

SpecDiscrete == Init /\ [][NextDiscrete]_vars

(***************************************************************************)
(* The functions in isolation: isCengDataComplete and the parser applied   *)
(* to every report of up to MaxLines lines, strtol to every text of up to  *)
(* MaxHexLen characters.                                                   *)
(***************************************************************************)
MaxLines == 2

MaxHexLen == 3

LineCatalogue ==
  { HeaderLine, ServingCell, ServingCellUnset, ServingCellAgain, Neighbour,
    NeighbourUnset, NeighbourEmpty, NeighbourShort, NeighbourBlank }

SampleReports ==
  { Report(ls) : ls \in UNION { [1..n -> LineCatalogue] : n \in 1..MaxLines } }

\* the characters 0 4 9 A b G
HexAlphabet == {48, 52, 57, 65, 98, 71}

HexTexts == UNION { [1..n -> HexAlphabet] : n \in 0..MaxHexLen }

InitPure ==
  /\ NoCall
  /\ NoDevice
  /\ \/ sampleKind = "report" /\ sample \in SampleReports
     \/ sampleKind = "hex" /\ sample \in HexTexts
  /\ sampleDone = {}
  /\ sampleComplete = FALSE
  /\ sampleCells = << >>
  /\ sampleValue = 0

CheckSample ==
  /\ sampleKind = "report"
  /\ "check" \notin sampleDone
  /\ sampleComplete' = isCengDataComplete(ReportText(sample))
  /\ sampleDone' = sampleDone \cup {"check"}
  /\ UNCHANGED <<pc, ret, trace, locals, globals, discretes, published,
                 sampleKind, sample,
                 sampleCells, sampleValue, devices>>

ParseSample ==
  /\ sampleKind = "report"
  /\ "parse" \notin sampleDone
  /\ sampleCells' = ParseCells(ReportText(sample))
  /\ sampleDone' = sampleDone \cup {"parse"}
  /\ UNCHANGED <<pc, ret, trace, locals, globals, discretes, published,
                 sampleKind, sample,
                 sampleComplete, sampleValue, devices>>

DecodeSample ==
  /\ sampleKind = "hex"
  /\ "decode" \notin sampleDone
  /\ sampleValue' = Strtol16(sample)
  /\ sampleDone' = sampleDone \cup {"decode"}
  /\ UNCHANGED <<pc, ret, trace, locals, globals, discretes, published,
                 sampleKind, sample,
                 sampleComplete, sampleCells, devices>>

NextPure == CheckSample \/ ParseSample \/ DecodeSample

SpecPure == InitPure /\ [][NextPure]_vars

(***************************************************************************)
(* readAT taken by itself: the bytes the modem delivers within the timeout *)
(* are read one at a time, then the answer is logged line by line and      *)
(* returned.                                                               *)
(***************************************************************************)
MaxBytes == 3

\* the bytes NUL, TAB, LF, CR, US, space, A, ~, DEL and 200
ByteAlphabet == {0, 9, 10, 13, 31, 32, 65, 126, 127, 200}

\* every byte is kept
KeptAlways(c) == TRUE

\* (c >= 32 && c <= 126) || c == '\r' || c == '\n'
Kept(c) == (c >= 32 /\ c <= 126) \/ c = 13 \/ c = 10

RECURSIVE LoggedLines(_, _)
\* the lines printed with the [RSP] prefix: resp cut after each LF, each piece
\* trimmed, the empty ones skipped
LoggedLines(text, last) ==
  LET next == IndexOf(text, S_LF, last)
      line == Trim(IF next = -1 THEN SubstringFrom(text, last)
                   ELSE Substring(text, last, next + 1))
      here == IF Len(line) > 0 THEN <<line>> ELSE << >>
  IN IF next = -1 THEN here
     ELSE here \o LoggedLines(text, next + 1)

\* readAT(timeout) is called
ReadStart ==
  /\ readPc = "idle"
  /\ readPc' = "reading"
  /\ rxRead' = << >>
  /\ readResp' = S_EMPTY
  /\ readLog' = << >>
  /\ readReturn' = S_EMPTY
  /\ UNCHANGED <<besideReaders>>

\* one turn of the inner loop: a byte is read and appended if it is kept
ReadByte ==
  /\ readPc = "reading"
  /\ Len(rxRead) < MaxBytes
  /\ \E c \in ByteAlphabet :
       /\ rxRead' = Append(rxRead, c)
       /\ readResp' = IF Kept(c) THEN Append(readResp, c) ELSE readResp
  /\ UNCHANGED <<readPc, readLog, readReturn, besideReaders>>

\* millis() - start reaches the timeout
ReadTimeout ==
  /\ readPc = "reading"
  /\ readPc' = "logging"
  /\ UNCHANGED <<rxRead, readResp, readLog, readReturn, besideReaders>>

\* the answer is printed line by line and returned
ReadLogAndReturn ==
  /\ readPc = "logging"
  /\ readLog' = LoggedLines(readResp, 0)
  /\ readReturn' = readResp
  /\ readPc' = "idle"
  /\ UNCHANGED <<rxRead, readResp, besideReaders>>

NextRead == ReadStart \/ ReadByte \/ ReadTimeout \/ ReadLogAndReturn

SpecRead == Init /\ [][NextRead]_vars

(***************************************************************************)
(* The two loop() functions that start an acquisition: main3.cpp reads     *)
(* lines typed on the PC, main.cpp watches the BOOT button.  loop() and    *)
(* what it calls run on one thread; characters and button presses arrive   *)
(* at any time.                                                            *)
(***************************************************************************)
MaxQueued == 2

MaxLineLen == 2

T_Y == <<121>>          \* y
T_YES == <<121, 101, 115>>   \* yes

\* the characters Y, n, space, CR and LF
TypedAlphabet == {89, 110, 32, 13, 10}

\* c == '\n' || c == '\r'
EndOfLine(c) == c = 10 \/ c = 13

\* the comparison without input.trim()
TriggersUntrimmed(text) ==
  \/ ToLowerCase(text) = T_Y
  \/ ToLowerCase(text) = T_YES

\* input.trim(); input.equalsIgnoreCase("y") || input.equalsIgnoreCase("yes")
Triggers(text) ==
  \/ ToLowerCase(Trim(text)) = T_Y
  \/ ToLowerCase(Trim(text)) = T_YES

\* loop() runs whatever the call in progress
LoopRunsAlways(where) == TRUE

\* loop() runs its body only when control is not inside a call it made
LoopRuns(where) == where \in {"loop", "sample"}

\* a character typed on the PC arrives in Serial's buffer
TypeChar ==
  /\ Len(serialRx) < MaxQueued
  /\ \E c \in TypedAlphabet :
       /\ EndOfLine(c) \/ Len(input) + Len(serialRx) < MaxLineLen
       /\ serialRx' = Append(serialRx, c)
  /\ UNCHANGED <<runsThisPress, lineTyped, loopPc, input, inFlight, button, buttonPc, lastButtonState,
                 buttonState, processes, besideLoops>>

\* one turn of while (Serial.available()): an ordinary character
LoopReadChar ==
  /\ LoopRuns(loopPc)
  /\ serialRx # << >>
  /\ ~EndOfLine(Head(serialRx))
  /\ serialRx' = Tail(serialRx)
  /\ input' = Append(input, Head(serialRx))
  /\ lineTyped' = Append(lineTyped, Head(serialRx))
  /\ UNCHANGED <<runsThisPress, loopPc, inFlight, button, buttonPc,
                 lastButtonState, buttonState, processes, besideLoops>>

\* an end of line after a text that is not y or yes
LoopReadOtherLine ==
  /\ LoopRuns(loopPc)
  /\ serialRx # << >>
  /\ EndOfLine(Head(serialRx))
  /\ ~Triggers(input)
  /\ serialRx' = Tail(serialRx)
  /\ input' = S_EMPTY
  /\ lineTyped' = << >>
  /\ UNCHANGED <<runsThisPress, loopPc, inFlight, button, buttonPc,
                 lastButtonState, buttonState, processes, besideLoops>>

\* an end of line after y or yes: getCellInfo() is called
LoopReadTrigger ==
  /\ LoopRuns(loopPc)
  /\ serialRx # << >>
  /\ EndOfLine(Head(serialRx))
  /\ Triggers(input)
  /\ serialRx' = Tail(serialRx)
  /\ input' = Trim(input)
  /\ loopPc' = "acquiring"
  /\ inFlight' = inFlight + 1
  /\ lineTyped' = << >>
  /\ UNCHANGED <<runsThisPress, button, buttonPc, lastButtonState, buttonState, processes,
                 besideLoops>>

\* getCellInfo() returns to loop(); input = ""
LoopAcquired ==
  /\ loopPc = "acquiring"
  /\ inFlight > 0
  /\ loopPc' = "loop"
  /\ inFlight' = inFlight - 1
  /\ input' = S_EMPTY
  /\ UNCHANGED <<runsThisPress, lineTyped, serialRx, button, buttonPc, lastButtonState, buttonState,
                 processes, besideLoops>>

\* the test without lastButtonState: the pin reads LOW
PressedLevel(last, now) == now = "LOW"

\* lastButtonState == HIGH && buttonState == LOW
Pressed(last, now) == last = "HIGH" /\ now = "LOW"

\* the BOOT button is pressed or released
ButtonMoves ==
  /\ button' = IF button = "HIGH" THEN "LOW" ELSE "HIGH"
  /\ runsThisPress' = IF button = "HIGH" THEN 0 ELSE runsThisPress
  /\ UNCHANGED <<lineTyped, loopPc, serialRx, input, inFlight, buttonPc, lastButtonState,
                 buttonState, processes, besideLoops>>

\* loop() of main.cpp reads the pin; a falling edge goes on to the debounce
ButtonSample ==
  /\ LoopRuns(buttonPc)
  /\ buttonState' = button
  /\ IF Pressed(lastButtonState, button)
     THEN buttonPc' = "debounce" /\ UNCHANGED lastButtonState
     ELSE buttonPc' = "sample" /\ lastButtonState' = button
  /\ UNCHANGED <<runsThisPress, lineTyped, loopPc, serialRx, input, inFlight, button, processes,
                 besideLoops>>

\* after delay(50): still pressed, runProcess() is called; else nothing
ButtonDebounce ==
  /\ buttonPc = "debounce"
  /\ IF button = "LOW"
     THEN /\ buttonPc' = "process"
          /\ processes' = processes + 1
          /\ runsThisPress' = runsThisPress + 1
          /\ UNCHANGED lastButtonState
     ELSE /\ buttonPc' = "sample"
          /\ lastButtonState' = buttonState
          /\ UNCHANGED <<processes, runsThisPress>>
  /\ UNCHANGED <<lineTyped, loopPc, serialRx, input, inFlight, button, buttonState,
                 besideLoops>>

\* runProcess() returns to loop()
ButtonProcessed ==
  /\ buttonPc = "process"
  /\ processes > 0
  /\ buttonPc' = "release"
  /\ processes' = processes - 1
  /\ UNCHANGED <<runsThisPress, lineTyped, loopPc, serialRx, input, inFlight, button, lastButtonState,
                 buttonState, besideLoops>>

\* while (digitalRead(BOOT_BUTTON_PIN) == LOW) ends once the button is up
ButtonReleased ==
  /\ buttonPc = "release"
  /\ button = "HIGH"
  /\ buttonPc' = "sample"
  /\ lastButtonState' = buttonState
  /\ UNCHANGED <<runsThisPress, lineTyped, loopPc, serialRx, input, inFlight, button, buttonState,
                 processes, besideLoops>>

NextLoop ==
  \/ TypeChar
  \/ LoopReadChar
  \/ LoopReadOtherLine
  \/ LoopReadTrigger
  \/ LoopAcquired
  \/ ButtonMoves
  \/ ButtonSample
  \/ ButtonDebounce
  \/ ButtonProcessed
  \/ ButtonReleased

SpecLoop == Init /\ [][NextLoop]_vars

(***************************************************************************)
(* The distance estimate taken by itself, for the signal qualities the     *)
(* SIM800L reports.                                                        *)
(***************************************************************************)
MaxQuality == 31

\* the estimate is made for one more signal quality
EstimateDistance ==
  /\ \E sq \in 0..MaxQuality :
       LET made == [quality |-> sq, tenths |-> Distance(sq)]
       IN estimated' = IF Len(estimated) < 2 THEN Append(estimated, made)
                       ELSE <<estimated[2], made>>
  /\ UNCHANGED besideEstimates

NextDistance == EstimateDistance

SpecDistance == Init /\ [][NextDistance]_vars

(***************************************************************************)
(* The serial bridge (main2.cpp): loop() drains Serial into sim800Serial,  *)
(* then sim800Serial into Serial through the filter.  Bytes arrive from    *)
(* either side at any time.                                                *)
(***************************************************************************)
MaxBridgeBytes == 2

\* bytes the PC may send: NUL, A and 200
PcBytes == {0, 65, 200}

\* bytes the SIM800L may send: NUL, LF, A, DEL and 200
ModemBytes == {0, 10, 65, 127, 200}

\* (char)c as written to the other side
AsByte(c) == c % 256

\* the filter with DEL let through
BridgeKeptThroughDel(c) == (c >= 32 /\ c <= 127) \/ c = 13 \/ c = 10

\* (c >= 32 && c <= 126) || c == '\r' || c == '\n'
BridgeKept(c) == (c >= 32 /\ c <= 126) \/ c = 13 \/ c = 10

\* a byte from the PC arrives
PcSends ==
  /\ Len(pcTaken) + Len(pcRx) < MaxBridgeBytes
  /\ \E c \in PcBytes : pcRx' = Append(pcRx, c)
  /\ UNCHANGED <<bridgePc, pcTaken, toModem, modemRx, modemTaken, toPc,
                 besideBridges>>

\* a byte from the SIM800L arrives
ModemSends ==
  /\ Len(modemTaken) + Len(modemRx) < MaxBridgeBytes
  /\ \E c \in ModemBytes : modemRx' = Append(modemRx, c)
  /\ UNCHANGED <<bridgePc, pcRx, pcTaken, toModem, modemTaken, toPc,
                 besideBridges>>

\* one turn of the first while: a byte of the PC is written to the SIM800L
ForwardFromPc ==
  /\ bridgePc = "pc"
  /\ pcRx # << >>
  /\ pcRx' = Tail(pcRx)
  /\ pcTaken' = Append(pcTaken, Head(pcRx))
  /\ toModem' = Append(toModem, AsByte(Head(pcRx)))
  /\ UNCHANGED <<bridgePc, modemRx, modemTaken, toPc, besideBridges>>

\* Serial.read() gives -1: on to the second while
PcDrained ==
  /\ bridgePc = "pc"
  /\ pcRx = << >>
  /\ bridgePc' = "modem"
  /\ UNCHANGED <<pcRx, pcTaken, toModem, modemRx, modemTaken, toPc,
                 besideBridges>>

\* one turn of the second while: a byte of the SIM800L is written to the PC
\* if the filter keeps it
ForwardFromModem ==
  /\ bridgePc = "modem"
  /\ modemRx # << >>
  /\ modemRx' = Tail(modemRx)
  /\ modemTaken' = Append(modemTaken, Head(modemRx))
  /\ toPc' = IF BridgeKept(Head(modemRx))
             THEN Append(toPc, AsByte(Head(modemRx)))
             ELSE toPc
  /\ UNCHANGED <<bridgePc, pcRx, pcTaken, toModem, besideBridges>>

\* sim800Serial.read() gives -1: loop() returns and is called again
ModemDrained ==
  /\ bridgePc = "modem"
  /\ modemRx = << >>
  /\ bridgePc' = "pc"
  /\ UNCHANGED <<pcRx, pcTaken, toModem, modemRx, modemTaken, toPc,
                 besideBridges>>

NextBridge ==
  \/ PcSends
  \/ ModemSends
  \/ ForwardFromPc
  \/ PcDrained
  \/ ForwardFromModem
  \/ ModemDrained

SpecBridge == Init /\ [][NextBridge]_vars

(***************************************************************************)
(* runProcess (main.cpp): connectivity, cell info, the two Google queries, *)
(* then e-mail and SMS.  Each step it calls ends with an outcome that the  *)
(* network decides.                                                        *)
(***************************************************************************)
\* a step of runProcess and how it ended
Step(name, ok) == [step |-> name, ok |-> ok]

\* GPRS is attempted whatever became of WiFi
NeedsGprsAlways(wifiConnected) == TRUE

\* if (connectWiFi()) ... else: GPRS is attempted when WiFi did not connect
NeedsGprs(wifiConnected) == ~wifiConnected

\* what sim800Serial holds 500 ms after AT+CREG?
ProcessCregResponses ==
  { S_EMPTY,
    CregText([found |-> TRUE, lacHex |-> F_0495, cidHex |-> F_27B9,
              lacValue |-> 1173, cidValue |-> 10169, urc |-> << >>]),
    CregText([found |-> FALSE, lacHex |-> S_EMPTY, cidHex |-> S_EMPTY,
              lacValue |-> 0, cidValue |-> 0, urc |-> << >>]) }

\* what the Geolocation API may give: latitude,longitude (Accuracy: ..m)
Locations ==
  { "46.204391,6.143158 (Accuracy: 1200.00m)",
    "40.712776,-74.005974 (Accuracy: 850.00m)" }

\* what the Geocoding API may give
Addresses == {"Geneva, Switzerland", "New York, NY, USA"}

\* the next stage is entered whatever became of this one
AfterStageRegardless(ok, following) == following

\* if (stage()) ... else return: the next stage is entered only after success
AfterStage(ok, following) == IF ok THEN following ELSE "idle"

\* loop() calls runProcess()
RunProcess ==
  /\ processPc = "idle"
  /\ processPc' = "wifi"
  /\ journal' = << >>
  /\ UNCHANGED <<processCellInfo, locationInfo, addressInfo, allInfo,
                 besideRuns>>

\* connectWiFi(): connected within 10 s, or not
ProcessConnectWiFi ==
  /\ processPc = "wifi"
  /\ \E connected \in BOOLEAN :
       /\ journal' = Append(journal, Step("connectWiFi", connected))
       /\ processPc' = IF NeedsGprs(connected) THEN "gprs" ELSE "cell"
  /\ UNCHANGED <<processCellInfo, locationInfo, addressInfo, allInfo,
                 besideRuns>>

\* connectGPRS(): restart, waitForNetwork and gprsConnect all pass, or not;
\* on failure runProcess returns
ProcessConnectGPRS ==
  /\ processPc = "gprs"
  /\ \E connected \in BOOLEAN :
       /\ journal' = Append(journal, Step("connectGPRS", connected))
       /\ processPc' = IF connected THEN "cell" ELSE "idle"
  /\ UNCHANGED <<processCellInfo, locationInfo, addressInfo, allInfo,
                 besideRuns>>

\* getCellInfo() of main.cpp: cellInfo = response; false on an empty response
ProcessGetCellInfo ==
  /\ processPc = "cell"
  /\ \E response \in ProcessCregResponses :
       /\ processCellInfo' = response
       /\ journal' = Append(journal, Step("getCellInfo", Len(response) > 0))
       /\ processPc' = AfterStage(Len(response) > 0, "location")
  /\ UNCHANGED <<locationInfo, addressInfo, allInfo, besideRuns>>

\* getLocationFromGoogle(): HTTP 200 with a location, or false
ProcessGetLocation ==
  /\ processPc = "location"
  /\ \/ \E found \in Locations :
          /\ locationInfo' = found
          /\ journal' = Append(journal, Step("getLocationFromGoogle", TRUE))
          /\ processPc' = AfterStage(TRUE, "address")
     \/ /\ journal' = Append(journal, Step("getLocationFromGoogle", FALSE))
        /\ processPc' = AfterStage(FALSE, "address")
        /\ UNCHANGED locationInfo
  /\ UNCHANGED <<processCellInfo, addressInfo, allInfo, besideRuns>>

\* getAddressFromGoogle(): HTTP 200 with an address, or false
ProcessGetAddress ==
  /\ processPc = "address"
  /\ \/ \E found \in Addresses :
          /\ addressInfo' = found
          /\ journal' = Append(journal, Step("getAddressFromGoogle", TRUE))
          /\ processPc' = AfterStage(TRUE, "email")
     \/ /\ journal' = Append(journal, Step("getAddressFromGoogle", FALSE))
        /\ processPc' = AfterStage(FALSE, "email")
        /\ UNCHANGED addressInfo
  /\ UNCHANGED <<processCellInfo, locationInfo, allInfo, besideRuns>>

\* googleMapLink and allInfo are put together, then sendEmail()
ProcessSendEmail ==
  /\ processPc = "email"
  /\ allInfo' = <<processCellInfo, locationInfo, addressInfo>>
  /\ journal' = Append(journal, Step("sendEmail", TRUE))
  /\ processPc' = "sms"
  /\ UNCHANGED <<processCellInfo, locationInfo, addressInfo, besideRuns>>

\* sendSMS(), and runProcess returns
ProcessSendSMS ==
  /\ processPc = "sms"
  /\ journal' = Append(journal, Step("sendSMS", TRUE))
  /\ processPc' = "idle"
  /\ UNCHANGED <<processCellInfo, locationInfo, addressInfo, allInfo,
                 besideRuns>>

NextProcess ==
  \/ RunProcess
  \/ ProcessConnectWiFi
  \/ ProcessConnectGPRS
  \/ ProcessGetCellInfo
  \/ ProcessGetLocation
  \/ ProcessGetAddress
  \/ ProcessSendEmail
  \/ ProcessSendSMS

SpecProcess == Init /\ [][NextProcess]_vars

(***************************************************************************)
(* getCellInfo (tabular variant) on the serial line.  sendAT writes a      *)
(* command; the SIM800L answers the commands in order, each at a time of   *)
(* its own; readAT returns whatever sim800Serial holds when its time is    *)
(* up.  Nothing empties the receive buffer but readAT.                     *)
(***************************************************************************)
\* answers left over from earlier calls that a new call is started with
MaxBacklog == 1

\* the command written at each sendAT of getCellInfo
CommandAt(where) ==
  CASE where = "at" -> "AT"
    [] where = "cpin" -> "AT+CPIN?"
    [] where = "cengmode" -> "AT+CENG=3,1"
    [] where = "poll" -> "AT+CENG?"
    [] where = "cops" -> "AT+COPS?"

\* the statement after each sendAT: its readAT, except after AT+CENG=3,1
AfterSend(where) ==
  CASE where = "at" -> "atRead"
    [] where = "cpin" -> "cpinRead"
    [] where = "cengmode" -> "poll"
    [] where = "poll" -> "pollRead"
    [] where = "cops" -> "copsRead"

\* what the SIM800L answers to a command
AnswersTo(cmd) ==
  CASE cmd = "AT" -> {Framed(<<T_OK_LINE>>)}
    [] cmd = "AT+CPIN?" -> {Framed(<<T_CPIN_READY, T_OK_LINE>>),
                            Framed(<<T_CPIN_SIM_PIN, T_OK_LINE>>)}
    [] cmd = "AT+CENG=3,1" -> {Framed(<<T_OK_LINE>>)}
    [] cmd = "AT+CENG?" -> {ReportText(Report(<<HeaderLine, ServingCell>>)),
                            ReportText(Report(<<HeaderLine, ServingCellUnset>>))}
    [] cmd = "AT+COPS?" -> {Framed(<<T_COPS_ALPHA, T_OK_LINE>>)}

\* bytes as they entered the receive buffer: since is the number of commands
\* the call had written when the modem emitted them
Chunk(bytes, since) == [bytes |-> bytes, since |-> since]

RECURSIVE Joined(_)
\* String resp of readAT: the bytes read, in order
Joined(chunks) ==
  IF chunks = << >> THEN << >>
  ELSE Head(chunks).bytes \o Joined(Tail(chunks))

\* the token each response is searched for
TokenOf(test) ==
  CASE test = "atRead" -> S_OK
    [] test = "cpinRead" -> S_READY
    [] test = "pollRead" -> S_CENG
    [] test = "copsRead" -> S_QUOTE

\* the test getCellInfo makes on the response of each readAT
Passes(test, resp) ==
  CASE test = "atRead" -> ModemResponds(resp)
    [] test = "cpinRead" -> SimReady(resp)
    [] test = "pollRead" -> PollAccepted(resp)
    [] test = "copsRead" -> TRUE

\* where the call goes after a readAT; "true" and "false" are its returns
AfterRead(test, resp, i) ==
  CASE test = "atRead" -> IF Passes(test, resp) THEN "cpin" ELSE "false"
    [] test = "cpinRead" -> IF Passes(test, resp) THEN "cengmode" ELSE "false"
    [] test = "pollRead" ->
         IF AfterRound(Passes(test, resp), i) = "parse"
         THEN IF QueriesOperator(resp) THEN "cops" ELSE "true"
         ELSE IF AfterRound(Passes(test, resp), i) = "poll" THEN "poll"
         ELSE "false"
    [] test = "copsRead" -> "true"

\* loop() calls getCellInfo(); what sim800Serial holds was emitted before
\* any command of this call
WireCall ==
  /\ wirePc = "idle"
  /\ Len(owed) + Len(rxBuffer) <= MaxBacklog
  /\ wirePc' = "at"
  /\ written' = 0
  /\ rxBuffer' = [k \in 1..Len(rxBuffer) |-> Chunk(rxBuffer[k].bytes, 0)]
  /\ taken' = [exchange |-> 0, test |-> "none", chunks |-> << >>,
               passed |-> FALSE]
  /\ round' = 0
  /\ wireRet' = "none"
  /\ UNCHANGED <<owed, besideWires>>

\* sendAT(cmd): the command is written; the receive buffer is left as it is
WireSend ==
  /\ wirePc \in {"at", "cpin", "cengmode", "poll", "cops"}
  /\ written' = written + 1
  /\ owed' = Append(owed, CommandAt(wirePc))
  /\ wirePc' = AfterSend(wirePc)
  /\ UNCHANGED <<rxBuffer, taken, round, wireRet, besideWires>>

\* the SIM800L answers the oldest command it has not answered
ModemAnswers ==
  /\ owed # << >>
  /\ \E bytes \in AnswersTo(Head(owed)) :
       rxBuffer' = Append(rxBuffer, Chunk(bytes, written))
  /\ owed' = Tail(owed)
  /\ UNCHANGED <<wirePc, written, taken, round, wireRet, besideWires>>

\* readAT(timeout) returns all that sim800Serial holds; the test that follows
WireRead ==
  /\ wirePc \in {"atRead", "cpinRead", "pollRead", "copsRead"}
  /\ LET resp == Joined(rxBuffer)
         next == AfterRead(wirePc, resp, round)
     IN /\ taken' = [exchange |-> written, test |-> wirePc,
                     chunks |-> rxBuffer, passed |-> Passes(wirePc, resp)]
        /\ rxBuffer' = << >>
        /\ round' = IF wirePc = "pollRead" /\ next = "poll"
                    THEN round + 1 ELSE round
        /\ IF next \in {"true", "false"}
           THEN wirePc' = "idle" /\ wireRet' = next
           ELSE wirePc' = next /\ wireRet' = wireRet
  /\ UNCHANGED <<written, owed, besideWires>>

NextWire ==
  \/ WireCall
  \/ WireSend
  \/ ModemAnswers
  \/ WireRead

SpecWire == Init /\ [][NextWire]_vars

(***************************************************************************)
(* What the modem meant, read off the report and not off its text.         *)
(***************************************************************************)
\* the texts of a column the modem has not populated
UnsetTexts == {S_EMPTY, S_0000, S_ffff, F_FFFF, F_SPACE}

\* a cell line with an unpopulated or missing mcc, mnc, lac or cid
CellLineUnset(l) ==
  /\ l.kind = "cell"
  /\ \E c \in 1..4 : c > Len(l.fields) \/ l.fields[c] \in UnsetTexts

ReportHasUnset(report) ==
  \E k \in 1..Len(report.lines) : CellLineUnset(report.lines[k])

\* the cell lines of a report, in order
CellLinesOf(report) == SelectSeq(report.lines, LAMBDA l : l.kind = "cell")

\* a report that holds the marker +CENG:
HasMarker(report) == Len(report.lines) > 0

\* the commands of the call so far
Commands == [k \in 1..Len(SelectSeq(trace, LAMBDA e : e.op = "send")) |->
               SelectSeq(trace, LAMBDA e : e.op = "send")[k].cmd]

TimesSent(cmd) == Len(SelectSeq(trace, LAMBDA e : e = Sent(cmd)))

\* the call has returned
Returned == pc = "idle" /\ ret # "none"

(***************************************************************************)
(* Properties.                                                             *)
(***************************************************************************)

\* C1: the retry loop polls at most 5 times and stops at the first accepted
\* answer: no poll follows an accepted answer, so when attempt k is the first
\* accepted one exactly k polls were made, and the call goes on (round k,
\* parsing) with the answer of attempt k
C1_RetryStopsAtFirstAccepted ==
  /\ TimesSent("AT+CENG?") <= 5
  /\ TimesSent("AT+CENG?") = Len(polls)
  /\ \A k \in 1..Len(polls) :
       PollAccepted(ReportText(polls[k])) =>
         /\ k = Len(polls)
         /\ cengSuccess
         /\ successfulRound = k
         /\ cengResponse = ReportText(polls[k])
         /\ pc \in {"parse", "idle"}
         /\ ret # "false"
         /\ ret = "true" => cells = ParseCells(ReportText(polls[k]))

\* C1 witness: a call that returned success at its third poll
C1_ThirdAttemptAccepted ==
  /\ Returned /\ ret = "true"
  /\ Len(polls) = 3
  /\ ~PollAccepted(ReportText(polls[1]))
  /\ ~PollAccepted(ReportText(polls[2]))
  /\ TimesSent("AT+CENG?") = 3

\* C2: when none of the answers is accepted - in particular when each one
\* lacks the marker or carries an unpopulated column - the call returns false
\* after exactly 5 polls, without AT+COPS? and without parsing
C2_ExhaustedAfterFivePolls ==
  /\ ( /\ Returned
       /\ polls # << >>
       /\ \A k \in 1..Len(polls) : ~PollAccepted(ReportText(polls[k])) )
     => /\ ret = "false"
        /\ TimesSent("AT+CENG?") = 5
        /\ Len(polls) = 5
        /\ TimesSent("AT+COPS?") = 0
        /\ cells = << >>
        /\ ~cengSuccess
  /\ ( /\ Returned
       /\ polls # << >>
       /\ \A k \in 1..Len(polls) :
            ~HasMarker(polls[k]) \/ ReportHasUnset(polls[k]) )
     => /\ ret = "false"
        /\ TimesSent("AT+CENG?") = 5
        /\ TimesSent("AT+COPS?") = 0
        /\ cells = << >>

\* C2 witness: five answers holding only placeholder columns, then failure
C2_FivePlaceholderPolls ==
  /\ Returned /\ ret = "false"
  /\ Len(polls) = 5
  /\ \A k \in 1..5 : polls[k] = Report(<<HeaderLine, ServingCellUnset>>)

\* C3: once the answer to AT is read and holds no OK, the call has returned
\* false and AT was the only command sent
C3_UnresponsiveModemStops ==
  (trace # << >> /\ IndexOf(atResp, S_OK, 0) = -1)
    => /\ Returned /\ ret = "false"
       /\ Commands = <<"AT">>
       /\ trace = Exchange("AT", 1000)
       /\ polls = << >>

\* C3 witness: the modem answered ERROR to AT
C3_ProbeAnsweredError ==
  Returned /\ atResp = Framed(<<T_ERROR_LINE>>)

\* C4: once the answer to AT+CPIN? is read and holds no READY, the call has
\* returned false without any poll; and no call sends AT or AT+CPIN? twice
C4_SimNotReadyStops ==
  /\ (TimesSent("AT+CPIN?") > 0 /\ IndexOf(cpinResp, S_READY, 0) = -1)
       => /\ Returned /\ ret = "false"
          /\ Commands = <<"AT", "AT+CPIN?">>
          /\ TimesSent("AT+CENG?") = 0
          /\ polls = << >>
  /\ TimesSent("AT") <= 1
  /\ TimesSent("AT+CPIN?") <= 1

\* C4 witness: the modem answered +CPIN: SIM PIN
C4_SimAsksForPin ==
  Returned /\ cpinResp = Framed(<<T_CPIN_SIM_PIN, T_OK_LINE>>)

\* the report without the rx_level and timing_advance of its cell lines
WithoutRadioFields(report) ==
  [report EXCEPT !.lines =
     [k \in 1..Len(report.lines) |->
        IF report.lines[k].kind = "cell"
        THEN [report.lines[k] EXCEPT !.fields =
                SubSeq(@, 1, IF Len(@) < 4 THEN Len(@) ELSE 4)]
        ELSE report.lines[k]]]

\* C5: isCengDataComplete is false for every report with a cell line whose
\* mcc, mnc, lac or cid is empty, blank, 0000 or ffff in either case, and its
\* verdict is the verdict on the report stripped of rx_level and
\* timing_advance
C5_UnsetColumnRejected ==
  ("check" \in sampleDone) =>
    /\ ReportHasUnset(sample) => ~sampleComplete
    /\ sampleComplete = isCengDataComplete(ReportText(WithoutRadioFields(sample)))

\* C5 witness: a checked report whose first cell line is populated and whose
\* second carries FFFF
C5_SecondLineUnset ==
  /\ "check" \in sampleDone
  /\ sample = Report(<<ServingCell, NeighbourUnset>>)

\* C6: an answer that holds the marker but no cell line is never the accepted
\* answer of the retry loop
C6_EmptyRecordSetRejected ==
  \A k \in 1..Len(polls) :
    (HasMarker(polls[k]) /\ CellLinesOf(polls[k]) = << >>)
      => ~(cengSuccess /\ k = Len(polls))

\* values[6] of a cell line: its fields, the missing trailing ones empty
SixFields(fields) ==
  [c \in 1..6 |-> IF c <= Len(fields) THEN fields[c] ELSE S_EMPTY]

\* the cells for which the parser obtained values
ParsedCells(cs) ==
  SelectSeq(cs, LAMBDA c : c.state \in {"decoded", "incomplete"})

\* C7: after a successful call the parser has yielded one record per cell
\* line of the accepted answer, with the line's index and its six fields in
\* order, a sixth field included
C7_ParserYieldsEveryRecord ==
  (Returned /\ ret = "true") =>
    LET lines == CellLinesOf(polls[Len(polls)])
        recs == ParsedCells(cells)
    IN /\ Len(recs) = Len(lines)
       /\ \A k \in 1..Len(lines) :
            /\ recs[k].index = lines[k].index
            /\ recs[k].values = SixFields(lines[k].fields)

\* C8: a successful tabular call whose accepted answer is the single record
\* 0,"228,10,0495,27B9,18,5" leaves mcc 228, mnc 10, lac 1173 and cid 10169
\* in the result handed to the caller
C8_ResultCarriesServingCell ==
  (Returned /\ ret = "true" /\ polls[Len(polls)] = Report(<<ServingCell>>))
    => /\ g_mcc = 228
       /\ g_mnc = 10
       /\ g_lac = 1173
       /\ g_cid = 10169

\* C9: a successful discrete call holds, for each query the modem answered,
\* the value the modem meant: lac and cid as the base-16 values of the two
\* quoted texts of +CREG, the signal quality of +CSQ, the quoted operator
\* name, and mcc / mnc as the first 3 / remaining characters of the code
C9_DiscreteResultFieldByField ==
  (Returned /\ ret = "true") =>
    LET creg == answers[1]
        csq == answers[2]
        numeric == answers[3]
        alpha == answers[4]
    IN /\ Len(answers) = 4
       /\ creg.found => /\ g_lac = creg.lacValue
                        /\ g_cid = creg.cidValue
                        /\ lac = LongText(creg.lacValue)
                        /\ cid = LongText(creg.cidValue)
       /\ csq.found => signalQuality = csq.value
       /\ numeric.found => /\ operatorCode = numeric.code
                           /\ g_mcc = numeric.mcc
                           /\ g_mnc = numeric.mnc
       /\ alpha.found => operatorName = alpha.name
       /\ cellInfo = Summary(operatorName, operatorCode, g_mcc, g_mnc,
                             signalQuality, lac, cid)

\* C9 witness: the answers +CREG: 2,5,"0495","27B9", +CSQ: 18,99, "22810" and
\* "CARRIER" gave lac 1173, cid 10169, signal 18, mcc 228, mnc 10, CARRIER
C9_ScenarioA ==
  /\ Returned /\ ret = "true"
  /\ answers[1].found /\ answers[1].lacHex = F_0495 /\ answers[1].cidHex = F_27B9
  /\ answers[2].found /\ answers[2].text = F_18
  /\ answers[3].found /\ answers[3].code = F_22810
  /\ answers[4].found /\ answers[4].name = T_CARRIER
  /\ g_lac = 1173 /\ g_cid = 10169 /\ signalQuality = 18
  /\ g_mcc = 228 /\ g_mnc = 10 /\ operatorName = T_CARRIER

\* the values of the hexadecimal digits of HexAlphabet
HexDigitTable == (48 :> 0) @@ (52 :> 4) @@ (57 :> 9) @@ (65 :> 10) @@ (98 :> 11)

RECURSIVE Base16Value(_)
\* the base-16 value of a text made of digits of HexDigitTable
Base16Value(text) ==
  IF text = << >> THEN 0
  ELSE 16 * Base16Value(SubSeq(text, 1, Len(text) - 1))
       + HexDigitTable[text[Len(text)]]

\* C10: a text made only of hexadecimal digits decodes to its base-16 value,
\* and every other text decodes to 0
C10_HexDecodingExactAndTotal ==
  ("decode" \in sampleDone) =>
    sampleValue = IF \A k \in 1..Len(sample) : sample[k] \in DOMAIN HexDigitTable
                  THEN Base16Value(sample)
                  ELSE 0

\* C11: once AT+CSQ is answered the signal quality is in 0..31 or is 99: it
\* is the number the modem sent when that number is in 0..31, and 99 when the
\* answer has no +CSQ tag or the number is outside 0..31
C11_SignalQualityInRangeOrSentinel ==
  (Len(answers) >= 2) =>
    /\ signalQuality \in (0..31) \cup {99}
    /\ signalQuality = IF answers[2].found /\ answers[2].value \in 0..31
                       THEN answers[2].value
                       ELSE 99

\* C12: a discrete call returns true only if the AT+CREG? answer yielded lac
\* and cid: with no +CREG: tag, or fewer than four quotes after it, the call
\* returns false
C12_MissingLacCidFails ==
  (Returned /\ Len(answers) >= 1 /\ ~CregFields(cregResp).found)
    => ret = "false"

\* both preflight probes of the call have passed
PreflightPassed ==
  /\ TimesSent("AT+CPIN?") > 0
  /\ IndexOf(atResp, S_OK, 0) # -1
  /\ IndexOf(cpinResp, S_READY, 0) # -1

\* the last command of the call so far
LastCommand == Commands[Len(Commands)]

C14_ResultFromOwnResponses ==
  (Returned /\ ret = "true") =>
    /\ ~answers[1].found =>
         /\ g_lac = 0 /\ g_cid = 0
         /\ lac = S_EMPTY /\ cid = S_EMPTY
    /\ ~answers[3].found => g_mcc = 0 /\ g_mnc = 0
    /\ cellInfo = Summary(operatorName, operatorCode, g_mcc, g_mnc,
                          signalQuality, lac, cid)

RECURSIVE PrintableOf(_)
\* the bytes of a sequence that are printable ASCII, CR or LF, in order
PrintableOf(bytes) ==
  IF bytes = << >> THEN << >>
  ELSE LET b == Head(bytes)
       IN (IF b \in (32..126) \cup {10, 13} THEN <<b>> ELSE << >>)
          \o PrintableOf(Tail(bytes))

\* C15: at every point of a timed read the text accumulated is the printable
\* ASCII, CR and LF bytes of the bytes read so far, in arrival order; the
\* logging leaves it as it was, and it is the text returned
C15_ReadKeepsPrintableInOrder ==
  /\ readPc \in {"reading", "logging"} => readResp = PrintableOf(rxRead)
  /\ (readPc = "idle" /\ rxRead # << >>) =>
       /\ readReturn = PrintableOf(rxRead)
       /\ readResp = readReturn

\* C15 witness: the bytes NUL, A, LF were read and the text A LF returned,
\* the line A having been logged
C15_NulDroppedLineKept ==
  /\ readPc = "idle"
  /\ rxRead = <<0, 65, 10>>
  /\ readReturn = <<65, 10>>
  /\ readLog = << <<65>> >>

\* C16: at most one acquisition is in flight in either loop; while one runs
\* the characters typed stay in the buffer and the button is not looked at,
\* so that a second one starts only from the loop, after the first returned
C16_SingleAcquisitionInFlight ==
  /\ inFlight <= 1
  /\ processes <= 1
  /\ inFlight = 1 <=> loopPc = "acquiring"
  /\ processes = 1 <=> buttonPc = "process"

\* C16 witness: a y line arrived while an acquisition was running, and the
\* button was pressed again while runProcess was running
C16_TriggerDuringAcquisition ==
  /\ loopPc = "acquiring"
  /\ inFlight = 1
  /\ serialRx = <<89, 10>>
  /\ buttonPc = "process"
  /\ button = "LOW"
  /\ buttonState = "LOW"

\* the labels of the summary's lines, in order
SummaryLabels ==
  <<"Operator Name", "Operator Numeric Code", "MCC", "MNC", "Signal Quality",
    "LAC", "CID", "Approx. Distance to Tower">>

\* C17: after a successful call cellInfo is a non-empty summary whose lines
\* are, in order: operator name, operator numeric code, mcc, mnc, signal
\* quality, lac, cid, estimated distance
C17_SummaryInFixedOrder ==
  (Returned /\ ret = "true") =>
    /\ cellInfo # S_EMPTY
    /\ Len(cellInfo) = Len(SummaryLabels)
    /\ \A k \in 1..Len(cellInfo) : cellInfo[k].label = SummaryLabels[k]

\* C18: of two estimates made for signal qualities in 0..31, the one for the
\* higher quality is the shorter distance; in particular the estimate for 15
\* is longer than the estimate for 31
C18_DistanceFallsWithQuality ==
  \A i, j \in 1..Len(estimated) :
    estimated[i].quality < estimated[j].quality
      => estimated[i].tenths > estimated[j].tenths

StepNames == [k \in 1..Len(journal) |-> journal[k].step]

\* C20: runProcess tries WiFi first; it attempts GPRS only as its second
\* step and only when WiFi did not connect; when both fail it has returned
\* with nothing else done: no cell info query, no Google query, no e-mail,
\* no SMS
C20_WiFiFirstThenGprs ==
  /\ journal # << >> => journal[1].step = "connectWiFi"
  /\ \A k \in 1..Len(journal) :
       journal[k].step = "connectGPRS" => k = 2 /\ ~journal[1].ok
  /\ \A k \in 2..Len(journal) :
       journal[k].step # "connectGPRS" =>
         journal[1].ok \/ (journal[2] = Step("connectGPRS", TRUE) /\ k > 2)
  /\ (Len(journal) >= 2 /\ ~journal[1].ok /\ ~journal[2].ok) =>
       /\ processPc = "idle"
       /\ StepNames = <<"connectWiFi", "connectGPRS">>

\* C20 witness: WiFi did not connect, GPRS did not either, and runProcess
\* has returned
C20_BothConnectionsFailed ==
  /\ processPc = "idle"
  /\ journal = <<Step("connectWiFi", FALSE), Step("connectGPRS", FALSE)>>

\* the stages of runProcess after connectivity, in the order claimed
StageOrder ==
  <<"getCellInfo", "getLocationFromGoogle", "getAddressFromGoogle",
    "sendEmail", "sendSMS">>

\* the stage steps of the call so far
StageSteps ==
  SelectSeq(journal, LAMBDA e : e.step \notin {"connectWiFi", "connectGPRS"})

\* C21: the stages of a run are an initial part of cell info, location,
\* address, e-mail, SMS, each at most once; every stage but the last one done
\* has succeeded, and a failed stage has ended the run: e-mail and SMS are
\* sent only after cell info, location and address were all obtained
C21_StagesInOrderFirstFailureEnds ==
  /\ Len(StageSteps) <= Len(StageOrder)
  /\ \A k \in 1..Len(StageSteps) :
       /\ StageSteps[k].step = StageOrder[k]
       /\ k < Len(StageSteps) => StageSteps[k].ok
  /\ (StageSteps # << >> /\ ~StageSteps[Len(StageSteps)].ok) =>
       processPc = "idle"

\* C21 witness: cell info and location were obtained, the address was not,
\* and the run has ended without e-mail or SMS
C21_AddressFailedNothingSent ==
  /\ processPc = "idle"
  /\ StageSteps = <<Step("getCellInfo", TRUE),
                    Step("getLocationFromGoogle", TRUE),
                    Step("getAddressFromGoogle", FALSE)>>

\* a report whose index-0 record is populated while a neighbour record has
\* an unpopulated mcc, mnc, lac or cid
BadNeighbourOnly(report) ==
  /\ \E k \in 1..Len(report.lines) :
       /\ report.lines[k].kind = "cell"
       /\ report.lines[k].index = 0
  /\ \A k \in 1..Len(report.lines) :
       CellLineUnset(report.lines[k]) => report.lines[k].index > 0
  /\ ReportHasUnset(report)

\* C22 as stated: an answer whose index-0 record is complete is the accepted
\* answer of the retry loop even when a neighbour record of it is unpopulated
C22_BadNeighbourStillAccepted ==
  (polls # << >> /\ BadNeighbourOnly(polls[Len(polls)]))
    => cengSuccess /\ successfulRound = Len(polls)

\* C22 amended: an answer with an unpopulated neighbour record is never the
\* accepted one, but it fails only its attempt: before the 5th attempt the
\* loop goes on polling and the call has not failed
C22_BadNeighbourFailsAttemptOnly ==
  \A k \in 1..Len(polls) :
    BadNeighbourOnly(polls[k]) =>
      /\ ~(cengSuccess /\ successfulRound = k)
      /\ (k = Len(polls) /\ k < 5) => pc = "poll" /\ ret = "none"

\* C22 witness: the first answer had an empty neighbour record and was
\* rejected, the second had complete records only, and the call succeeded
C22_AcceptedAfterBadNeighbour ==
  /\ Returned /\ ret = "true"
  /\ Len(polls) = 2
  /\ polls[1] = Report(<<HeaderLine, ServingCell, NeighbourEmpty>>)
  /\ polls[2] = Report(<<HeaderLine, ServingCell, Neighbour>>)

\* C23: every command written to the modem is followed at once by its own
\* timed read: in the trace of a call each send is followed by a read, so
\* that no command is written while the previous answer is unread
C23_EverySendFollowedByRead ==
  \A k \in 1..Len(trace) :
    trace[k].op = "send" =>
      /\ k < Len(trace)
      /\ trace[k + 1].op = "read"

\* the backoff waits of the call so far: the delays that follow a read
BackoffWaits ==
  Cardinality({k \in 2..Len(trace) :
                 trace[k].op = "delay" /\ trace[k - 1].op = "read"})

\* C24: the backoff wait follows a failed attempt n only when n < 5: a call
\* that failed after 5 rejected answers has waited 4 times, and its 5th read
\* is the last thing it did
C24_BackoffOnlyBetweenAttempts ==
  (Returned /\ ret = "false" /\ Len(polls) = 5) =>
    /\ BackoffWaits = 4
    /\ trace[Len(trace)].op = "read"

\* the timed reads of the call so far
TimedReads == Len(SelectSeq(trace, LAMBDA e : e.op = "read"))

\* at most 9 commands in either variant, and at most 8 timed reads in the
\* tabular one, which never sends AT+CREG=2
ExchangesBounded ==
  /\ Len(Commands) <= 9
  /\ TimesSent("AT+CREG=2") = 0 => TimedReads <= 8

RecordSet(records) ==
  { [index |-> records[k].index, values |-> records[k].values] :
      k \in 1..Len(records) }

\* C26: for a report that isCengDataComplete accepts, the records it examined
\* are the records the parser obtained, with the same index and the same six
\* values, and as many of them
C26_ValidatorAndParserAgree ==
  ({"check", "parse"} \subseteq sampleDone /\ sampleComplete) =>
    LET examined == ExaminedFrom(ReportText(sample), 0)
        parsed == ParsedCells(sampleCells)
    IN /\ Len(parsed) = Len(examined)
       /\ RecordSet(parsed) = RecordSet(examined)

\* C27: lac and cid come from the +CREG line alone: when that line does not
\* hold four quotes both stay empty, whatever other lines of the answer hold
C27_LacCidFromRegistrationLineOnly ==
  (Len(answers) >= 1 /\ ~answers[1].found) =>
    lac = S_EMPTY /\ cid = S_EMPTY

\* C28: once the numeric AT+COPS? is answered, for a code of at least 5
\* characters mcc written out followed by mnc written out is the code, the
\* mcc being its first 3 characters; for a shorter code mcc and mnc are 0
C28_MccMncReproduceCode ==
  (Len(answers) >= 3) =>
    IF Len(answers[3].code) >= 5
    THEN /\ LongText(g_mcc) = SubSeq(answers[3].code, 1, 3)
         /\ LongText(g_mcc) \o LongText(g_mnc) = answers[3].code
    ELSE g_mcc = 0 /\ g_mnc = 0

\* the text, trimmed, is y or yes in any case
SaysYes(text) == ToLowerCase(Trim(text)) \in {T_Y, T_YES}

\* loop() takes a character out of Serial's buffer in this step
ReadsChar == Len(serialRx') < Len(serialRx)

\* what a step of the serial loop does to the acquisitions: one is started
\* exactly when an end of line is read after a line saying y or yes, and the
\* line then starts afresh
TriggerStep ==
  /\ (ReadsChar /\ EndOfLine(Head(serialRx))) =>
       /\ lineTyped' = << >>
       /\ IF SaysYes(lineTyped)
          THEN inFlight' = inFlight + 1 /\ loopPc' = "acquiring"
          ELSE inFlight' = inFlight /\ input' = S_EMPTY
  /\ (ReadsChar /\ ~EndOfLine(Head(serialRx))) =>
       /\ inFlight' = inFlight
       /\ lineTyped' = Append(lineTyped, Head(serialRx))
  /\ ~ReadsChar => inFlight' <= inFlight
  /\ (loopPc = "acquiring" /\ loopPc' = "loop") => input' = S_EMPTY

\* C29: an acquisition is started exactly when CR or LF is read and the
\* characters read since the previous CR or LF, trimmed, are y or yes in any
\* case; the input buffer is empty again once the line is dealt with, so the
\* LF of a CR LF pair finds an empty line and starts nothing
C29_LineStartsOneAcquisition ==
  [][TriggerStep]_vars

\* C29 witness: Y and CR were read and started an acquisition; the LF of the
\* pair is still in the buffer, with an empty line before it
C29_CrLfAfterY ==
  /\ loopPc = "acquiring"
  /\ input = <<89>>
  /\ lineTyped = << >>
  /\ serialRx = <<10>>

\* runProcess() is called in this step
RunStarts == processes' = processes + 1

\* what a step does to the runs: one starts only after the pin was read LOW
\* following a HIGH reading, and reads LOW again after the debounce delay
PressStep ==
  /\ RunStarts =>
       /\ buttonPc = "debounce"
       /\ lastButtonState = "HIGH"
       /\ buttonState = "LOW"
       /\ button = "LOW"
       /\ runsThisPress = 0
  /\ (buttonPc = "release" /\ buttonPc' # "release") => button = "HIGH"

\* C30: runProcess() is started only on a HIGH-to-LOW transition of the
\* button that still reads LOW after the debounce delay, and one press of the
\* button starts at most one run: a button held down during and after a run
\* starts no other run until it is released and pressed again
C30_OneRunPerPress ==
  [][PressStep]_vars

\* C30 witness: a run was started by a press and has returned; the button is
\* still held down and loop() waits for its release
C30_HeldAfterRun ==
  /\ buttonPc = "release"
  /\ button = "LOW"
  /\ runsThisPress = 1
  /\ processes = 0

\* the report holds a line of index 0 whose mcc, mnc, lac and cid are populated
HasServingRecord(report) ==
  \E k \in 1..Len(report.lines) :
    /\ report.lines[k].kind = "cell"
    /\ report.lines[k].index = 0
    /\ ~CellLineUnset(report.lines[k])

\* C31: a tabular call that returned true accepted an answer holding a line
\* of index 0 with populated mcc, mnc, lac and cid; an answer of neighbour
\* lines only, or of the header line only, never leads to success
C31_SuccessHoldsServingRecord ==
  (Returned /\ ret = "true") => HasServingRecord(polls[Len(polls)])

\* the answers to AT+CPIN? that report a SIM that cannot be used
SimUnusableAnswers ==
  { Framed(<<T_CPIN_NOT_READY, T_OK_LINE>>),
    Framed(<<T_CPIN_NOT_INSERTED, T_OK_LINE>>) }

\* C32: once the modem has answered +CPIN: NOT READY or +CPIN: NOT INSERTED
\* the call has returned false and no poll was issued
C32_UnusableSimStopsBeforePoll ==
  (TimesSent("AT+CPIN?") > 0 /\ cpinResp \in SimUnusableAnswers)
    => /\ Returned /\ ret = "false"
       /\ TimesSent("AT+CENG=3,1") = 0
       /\ TimesSent("AT+CENG?") = 0

\* the bytes of the last response that the modem emitted after the command
\* of that exchange was written
OwnChunks == SelectSeq(taken.chunks, LAMBDA c : c.since >= taken.exchange)

\* C33: the response of an exchange holds only bytes the modem emitted after
\* the command of that exchange was written, and when its test passed the
\* token searched for is found in those bytes: bytes left unread before the
\* command was written are neither returned nor able to satisfy the test
C33_ResponseFromOwnExchangeOnly ==
  /\ OwnChunks = taken.chunks
  /\ (taken.test # "none" /\ taken.passed)
       => IndexOf(Joined(OwnChunks), TokenOf(taken.test), 0) # -1

\* the commands every call begins with
Preamble == <<"AT", "AT+CPIN?", "AT+CENG=3,1">>

\* the report holds a cell line of index 0
HoldsServingLine(report) ==
  \E k \in 1..Len(report.lines) :
    report.lines[k].kind = "cell" /\ report.lines[k].index = 0

\* C34: the commands of a tabular call are AT, AT+CPIN?, AT+CENG=3,1, then 1
\* to 5 AT+CENG?, then at most one AT+COPS?, in this order; the call returns
\* after a shorter sequence only where a test failed; AT+COPS? is sent only
\* after an accepted poll whose answer holds a quoted line of index 0
C34_CommandsInFixedOrder ==
  LET polled == TimesSent("AT+CENG?")
      asked == TimesSent("AT+COPS?")
  IN /\ polled <= 5 /\ asked <= 1
     /\ Len(Commands) <= 3
          => Commands = SubSeq(Preamble, 1, Len(Commands))
     /\ Len(Commands) > 3
          => /\ polled >= 1
             /\ Commands = Preamble \o [k \in 1..polled |-> "AT+CENG?"]
                                    \o [k \in 1..asked |-> "AT+COPS?"]
     /\ asked = 1
          => /\ cengSuccess
             /\ PollAccepted(cengResponse)
             /\ HoldsServingLine(polls[Len(polls)])
     /\ Returned
          => \/ /\ ret = "false" /\ Commands = <<"AT">>
                /\ ~ModemResponds(atResp)
             \/ /\ ret = "false" /\ Commands = <<"AT", "AT+CPIN?">>
                /\ ~SimReady(cpinResp)
             \/ /\ ret = "false" /\ polled = 5 /\ asked = 0
                /\ ~cengSuccess
             \/ /\ ret = "true" /\ polled >= 1
                /\ cengSuccess

\* C34 witness: the second poll was accepted and the operator was queried
C34_OperatorQueriedAfterSecondPoll ==
  /\ Returned /\ ret = "true"
  /\ polls = <<Report(<<HeaderLine, ServingCellUnset>>),
               Report(<<HeaderLine, ServingCell>>)>>
  /\ Commands = Preamble \o <<"AT+CENG?", "AT+CENG?", "AT+COPS?">>

\* C35: after a call that returned false, g_mcc, g_mnc, g_lac, g_cid and
\* cellInfo are as they were when the call began
C35_FailedCallLeavesResult ==
  (Returned /\ ret = "false") => globals = published
====
